---- MODULE Spec2Model ----
(***************************************************************************)
(* Model of the audio device manager (src-tauri/src/audio_manager.rs) and  *)
(* of the parts of the UI (src/app.rs) that call it.                       *)
(*                                                                         *)
(* Spec      the AudioManager shared by concurrent tasks: the device cache *)
(*           behind its RwLock, get_audio_devices, set_default_audio_      *)
(*           device with its fallback, and the external tool (PowerShell   *)
(*           + AudioDeviceCmdlets) that owns the system default devices.   *)
(* SpecPort  one execute_powershell_with_retry call on its own, with the   *)
(*           process output as bytes.                                      *)
(* SpecSeq   the AudioManager used by one task, its operations one after   *)
(*           the other.                                                    *)
(* SpecOps   as SpecSeq, with change_audio_output, quick_switch_to_device, *)
(*           check_module_availability, install_module and the tauri       *)
(*           command set_default_device (src-tauri/src/lib.rs) as well.    *)
(* SpecSession  as SpecOps, for a manager of any session identifier.       *)
(* SpecParse parse_device_list_response on its own, on JSON values.        *)
(* SpecAuto  auto_switch_device of the UI on its own.                      *)
(* SpecApp   the two startup tasks of the UI and the AppState they write.  *)
(* SpecMeter set_default_audio_device by one task on a machine that counts *)
(*           the processes of each call, every process returning.          *)
(* SpecListing  get_devices by one task, the listing script printing any   *)
(*           JSON device array.                                            *)
(* SpecCache get_devices by one task on a manager that has run for a       *)
(*           while: the cache starts filled, around the cache_ttl boundary.*)
(*                                                                         *)
(* Time is in milliseconds.  Option<T> is a sequence: None == <<>>,        *)
(* Some(x) == <<x>>.  Result<T, E> is a record with the field ok.          *)
(***************************************************************************)
EXTENDS Integers, Sequences, FiniteSets, TLC

(* ------------------------------ bounds -------------------------------- *)

\* operations started in one behaviour of Spec
MaxCalls == 2

\* times the clock advances in one behaviour
MaxTicks == 1

\* longest standard output, in bytes, of one process run in SpecPort
MaxStdoutLen == 3

\* elements of the devices array of a document given to the parser
MaxDevices == 2

\* entries of a priority list, and priority values 0..MaxPriorities-1
MaxPriorities == 2

(* --------------------------- program constants ------------------------ *)

MAX_RETRY_ATTEMPTS == 3

RETRY_BASE_DELAY == 500

cache_ttl == 30000

(* ------------------------------ Option / Result ----------------------- *)

None == <<>>

Some(x) == <<x>>

IsSome(o) == o # <<>>

Unwrap(o) == o[1]

Ok(v) == [ok |-> TRUE, val |-> v]

Err(e) == [ok |-> FALSE, err |-> e]

(* ------------------------------ AudioError ---------------------------- *)

DeviceNotFound(s) == [kind |-> "DeviceNotFound", detail |-> s]

CommandFailed(s) == [kind |-> "CommandFailed", detail |-> s]

ParseError(s) == [kind |-> "ParseError", detail |-> s]

\* a conversion that keeps the I/O error in a variant of its own
FromIoErrorAsIo(e) == [kind |-> "Io", detail |-> e]

\* impl From<std::io::Error> for AudioError
FromIoError(e) == CommandFailed(e)

\* impl From<serde_json::Error> for AudioError
FromJsonError(e) == ParseError(e)

(* ------------------------------ sequences ----------------------------- *)

Range(s) == {s[i] : i \in 1..Len(s)}

\* iter().find(pred): index of the first element in Test, 0 when none
RECURSIVE FindFrom(_, _, _)
FindFrom(s, Test, i) ==
    IF i > Len(s) THEN 0
    ELSE IF s[i] \in Test THEN i
    ELSE FindFrom(s, Test, i + 1)

\* the sequences that enumerate the finite set S once each
Perms(S) ==
    {s \in [1..Cardinality(S) -> S] : Range(s) = S}

(* ------------------------- the external tool -------------------------- *)

\* Get-AudioDevice -List: the endpoints of the machine, in the tool's order
Catalog ==
    << [id |-> "A", name |-> "Speakers",   device_type |-> "Playback"],
       [id |-> "B", name |-> "Headphones", device_type |-> "Playback"],
       [id |-> "R", name |-> "Microphone", device_type |-> "Recording"] >>

CatalogIds == {Catalog[i].id : i \in 1..Len(Catalog)}

\* ids a caller asks for: a listed device and an id the tool does not list
RequestIds == {"B", "Z"}

TypeOf(id) == Catalog[CHOOSE i \in 1..Len(Catalog) : Catalog[i].id = id]

\* the diagnostic text on stderr of the run that is attempt number attempt of
\* a script: the code only passes the text on, so one text per run is enough
\* to tell the runs apart
Stderr(script, attempt) ==
    "stderr of run " \o ToString(attempt) \o " " \o script.id

\* the text of the std::io::Error of a process that could not be spawned
IoError(script, attempt) ==
    "io error of run " \o ToString(attempt) \o " " \o script.id

\* the system defaults the tool reads and writes: Get-AudioDevice -Playback
\* and Get-AudioDevice -Recording, each an Option<id>
SysDefaults ==
    [playback : {None} \cup {Some(Catalog[i].id) : i \in
                        {j \in 1..Len(Catalog) : Catalog[j].device_type = "Playback"}},
     recording : {None} \cup {Some(Catalog[i].id) : i \in
                        {j \in 1..Len(Catalog) : Catalog[j].device_type = "Recording"}}]

\* the defaults of the machine when the manager is constructed
InitialDefaults ==
    {[playback |-> None, recording |-> None],
     [playback |-> Some("A"), recording |-> Some("R")]}

\* the JSON document the listing script prints in its try branch
ListingResponse(d) ==
    [json |-> TRUE, error |-> None,
     devices |-> Some([i \in 1..Len(Catalog) |->
        [id |-> Catalog[i].id,
         name |-> Catalog[i].name,
         device_type |-> Catalog[i].device_type,
         state |-> "Active",
         is_default |-> (d.playback = Some(Catalog[i].id)
                           \/ d.recording = Some(Catalog[i].id))]])]

\* the JSON document of the script's catch branch
ErrorResponse == [json |-> TRUE, error |-> Some("module"), devices |-> None]

\* a JSON document with neither field, and output that is not JSON
EmptyResponse == [json |-> TRUE, error |-> None, devices |-> None]

GarbageResponse == [json |-> FALSE, error |-> None, devices |-> None]

\* what the listing script can leave on stdout when it exits with 0
ListStdouts(d) ==
    IF "listing" \in DOMAIN d THEN {d.listing}
    ELSE {ListingResponse(d), ErrorResponse, EmptyResponse, GarbageResponse}

\* what the module-availability script can leave on stdout: its documents
\* with available true and false, a document without the field, and output
\* that is not JSON
CheckStdouts ==
    {[json |-> TRUE, available |-> Some(TRUE)],
     [json |-> TRUE, available |-> Some(FALSE)],
     [json |-> TRUE, available |-> None],
     [json |-> FALSE, available |-> None]}

\* Set-AudioDevice -ID id -DefaultOnly: the default of the device's type
SetAudioDevice(d, id) ==
    IF id \notin CatalogIds THEN d
    ELSE IF TypeOf(id).device_type = "Playback"
         THEN [d EXCEPT !.playback = Some(id)]
         ELSE [d EXCEPT !.recording = Some(id)]

(* --------------------------- Response Parser -------------------------- *)

DeviceTypes == {"Playback", "Recording"}

DeviceStates == {"Active", "Disabled", "NotPresent", "Unplugged"}

\* one element of the devices array to an AudioDevice
ParseDevice(e) ==
    [id |-> e.id,
     name |-> e.name,
     device_type |-> e.device_type,
     state |-> IF e.state \in DeviceStates THEN e.state ELSE "Unknown",
     is_default |-> e.is_default]

\* the for loop: elements without a valid device_type are skipped
RECURSIVE ParseDevices(_)
ParseDevices(arr) ==
    IF arr = <<>> THEN <<>>
    ELSE IF Head(arr).device_type \in DeviceTypes
         THEN <<ParseDevice(Head(arr))>> \o ParseDevices(Tail(arr))
         ELSE ParseDevices(Tail(arr))

parse_device_list_response(out) ==
    IF ~out.json THEN Err(FromJsonError("json"))
    ELSE IF IsSome(out.error) THEN Err(CommandFailed(Unwrap(out.error)))
    ELSE IF ~IsSome(out.devices) THEN Err(ParseError("Missing devices array"))
    ELSE Ok(ParseDevices(Unwrap(out.devices)))

(* ------------------- Response Parser on JSON values ------------------- *)

\* serde_json::Value
\* (each kind of value keeps its content in a field of its own)
JNull == [t |-> "null"]

JBool(b) == [t |-> "bool", b |-> b]

JNum(n) == [t |-> "num", n |-> n]

JStr(s) == [t |-> "str", s |-> s]

JArr(a) == [t |-> "arr", a |-> a]

JObj(f) == [t |-> "obj", o |-> f]

\* Value::get(key): the member of an object, None for anything else
Get(value, key) ==
    IF value.t = "obj" /\ key \in DOMAIN value.o THEN Some(value.o[key]) ELSE None

\* value[key]: the member of an object, Null for anything else
Index(value, key) ==
    IF value.t = "obj" /\ key \in DOMAIN value.o THEN value.o[key] ELSE JNull

as_str(value) == IF value.t = "str" THEN Some(value.s) ELSE None

as_bool(value) == IF value.t = "bool" THEN Some(value.b) ELSE None

\* as_array that takes anything that is not an array for an empty one
as_array_or_empty(value) == IF value.t = "arr" THEN Some(value.a) ELSE Some(<<>>)

as_array(value) == IF value.t = "arr" THEN Some(value.a) ELSE None

unwrap_or(o, default) == IF IsSome(o) THEN Unwrap(o) ELSE default

\* what the installation script can leave on stdout: its two documents,
\* documents without success or error or with them of another type, a JSON
\* value that is no object, and output that is not JSON
InstallStdouts ==
    {[json |-> TRUE, value |-> v] :
        v \in {JObj([success |-> JBool(TRUE), version |-> JStr("3.1")]),
               JObj([success |-> JBool(FALSE), error |-> JStr("install")]),
               JObj([success |-> JBool(FALSE)]),
               JObj([success |-> JBool(FALSE), error |-> JNum(1)]),
               JObj([success |-> JStr("true"), error |-> JStr("install")]),
               JObj([error |-> JStr("install")]),
               JObj([success |-> JNum(1)]),
               JNull}}
    \cup {[json |-> FALSE, value |-> JNull]}

\* the match on device["device_type"].as_str() that also takes the names in
\* lower case
DeviceTypeOfAnyCase(device) ==
    LET s == as_str(Index(device, "device_type"))
    IN  IF s \in {Some("Playback"), Some("playback")} THEN Some("Playback")
        ELSE IF s \in {Some("Recording"), Some("recording")} THEN Some("Recording")
        ELSE None

\* the match on device["device_type"].as_str(): None stands for `continue`
DeviceTypeOf(device) ==
    LET s == as_str(Index(device, "device_type"))
    IN  IF s = Some("Playback") THEN Some("Playback")
        ELSE IF s = Some("Recording") THEN Some("Recording")
        ELSE None

\* the match on device["state"].as_str() that takes Active for the rest
DeviceStateOfActive(device) ==
    LET s == as_str(Index(device, "state"))
    IN  IF IsSome(s) /\ Unwrap(s) \in DeviceStates THEN Unwrap(s) ELSE "Active"

\* the match on device["state"].as_str()
DeviceStateOf(device) ==
    LET s == as_str(Index(device, "state"))
    IN  IF IsSome(s) /\ Unwrap(s) \in DeviceStates THEN Unwrap(s) ELSE "Unknown"

\* AudioDevice { .. } of an element with device_type
AudioDeviceOf(device, device_type) ==
    [id |-> unwrap_or(as_str(Index(device, "id")), ""),
     name |-> unwrap_or(as_str(Index(device, "name")), ""),
     device_type |-> device_type,
     state |-> DeviceStateOf(device),
     is_default |-> unwrap_or(as_bool(Index(device, "is_default")), FALSE),
     is_communication_default |->
         unwrap_or(as_bool(Index(device, "is_communication_default")), FALSE),
     last_seen |-> as_str(Index(device, "last_seen"))]

\* the for loop over devices_array
RECURSIVE PushDevices(_)
PushDevices(arr) ==
    IF arr = <<>> THEN <<>>
    ELSE LET device_type == DeviceTypeOf(Head(arr))
         IN  IF IsSome(device_type)
             THEN <<AudioDeviceOf(Head(arr), Unwrap(device_type))>>
                      \o PushDevices(Tail(arr))
             ELSE PushDevices(Tail(arr))

\* parse_device_list_response that looks for the devices array first
ParseDeviceListDevicesFirst(json_output) ==
    IF ~json_output.json THEN Err(FromJsonError("json"))
    ELSE LET response == json_output.value
             devices_array == as_array(Index(response, "devices"))
         IN  IF ~IsSome(devices_array)
             THEN Err(ParseError("Missing devices array"))
             ELSE IF IsSome(Get(response, "error"))
             THEN Err(CommandFailed(
                     unwrap_or(as_str(Unwrap(Get(response, "error"))), "Unknown error")))
             ELSE Ok(PushDevices(Unwrap(devices_array)))

\* parse_device_list_response on any text: json_output is text that is not
\* JSON, or the JSON value the text stands for
ParseDeviceList(json_output) ==
    IF ~json_output.json THEN Err(FromJsonError("json"))
    ELSE LET response == json_output.value
             devices_array == as_array(Index(response, "devices"))
         IN  IF IsSome(Get(response, "error"))
             THEN Err(CommandFailed(
                     unwrap_or(as_str(Unwrap(Get(response, "error"))), "Unknown error")))
             ELSE IF ~IsSome(devices_array)
             THEN Err(ParseError("Missing devices array"))
             ELSE Ok(PushDevices(Unwrap(devices_array)))

\* a record without one of its fields
Without(r, key) == [k \in DOMAIN r \ {key} |-> r[k]]

\* a record with another value in one of its fields
With(r, key, value) == [k \in DOMAIN r |-> IF k = key THEN value ELSE r[k]]

\* an element as the listing script prints it
WellFormed ==
    [id |-> JStr("A"), name |-> JStr("Speakers"),
     device_type |-> JStr("Playback"), state |-> JStr("Active"),
     is_default |-> JBool(TRUE), is_communication_default |-> JBool(TRUE),
     last_seen |-> JStr("2024-01-01T00:00:00.000Z")]

\* an element of a recording device that is disabled and no default
Recording ==
    [id |-> JStr("R"), name |-> JStr("Microphone"),
     device_type |-> JStr("Recording"), state |-> JStr("Disabled"),
     is_default |-> JBool(FALSE), is_communication_default |-> JBool(FALSE),
     last_seen |-> JStr("2024-01-02T00:00:00.000Z")]

\* an element whose members other than device_type are of another type
IllTyped ==
    [id |-> JNum(1), name |-> JNull,
     device_type |-> JStr("Playback"), state |-> JBool(TRUE),
     is_default |-> JStr("true"), is_communication_default |-> JNum(1),
     last_seen |-> JNum(1)]

\* the elements a devices array is made of: the well-formed ones, elements
\* with members absent, of another type or with another text, and a value
\* that is not an object
Elements ==
    {JObj(WellFormed), JObj(Recording), JObj(IllTyped), JStr("A"),
     JObj(Without(WellFormed, "device_type")),
     JObj(Without(WellFormed, "last_seen")),
     JObj([device_type |-> JStr("Playback")]),
     JObj(With(WellFormed, "device_type", JNum(1)))}
    \cup {JObj(With(WellFormed, "device_type", JStr(s))) :
             s \in {"playback", "Communication"}}
    \cup {JObj(With(WellFormed, "state", JStr(s))) :
             s \in {"NotPresent", "Unplugged", "active"}}

\* the arrays of at most n elements
RECURSIVE Arrays(_)
Arrays(n) ==
    IF n = 0 THEN {<<>>}
    ELSE Arrays(n - 1)
         \cup {Append(a, e) : a \in {b \in Arrays(n - 1) : Len(b) = n - 1},
                              e \in Elements}

\* what the members devices and error of a response can be
DevicesMembers ==
    {JArr(a) : a \in Arrays(MaxDevices)} \cup {JStr("none"), JNull, JObj(WellFormed)}

ErrorMembers == {JStr("module"), JNull, JNum(1)}

\* the texts given to the parser: text that is not JSON, values that are not
\* objects, and objects with and without the members devices and error
JsonOutputs ==
    {[json |-> FALSE, value |-> JNull]}
    \cup {[json |-> TRUE, value |-> v] :
             v \in {JNull, JStr("devices"), JArr(<<JObj(WellFormed)>>)}}
    \cup {[json |-> TRUE, value |-> JObj([session |-> JStr("PC")])]}
    \cup {[json |-> TRUE, value |-> JObj([devices |-> d])] : d \in DevicesMembers}
    \cup {[json |-> TRUE, value |-> JObj([error |-> e])] : e \in ErrorMembers}
    \cup {[json |-> TRUE, value |-> JObj([devices |-> d, error |-> e])] :
             d \in DevicesMembers, e \in ErrorMembers}

(* ------------------------- from_utf8_lossy ---------------------------- *)

\* the bytes a process may write in SpecPort: 'A', the lead and the
\* continuation byte of a 2-byte sequence, a 3-byte lead, an invalid byte
Bytes == {65, 195, 169, 226, 255}

\* U+FFFD REPLACEMENT CHARACTER in UTF-8
REPLACEMENT == <<239, 191, 189>>

IsCont(b) == b >= 128 /\ b <= 191

\* legal second bytes after the lead byte b of a 3- or 4-byte sequence
SecondOk(b, c) ==
    IF b = 224 THEN c >= 160 /\ c <= 191
    ELSE IF b = 237 THEN c >= 128 /\ c <= 159
    ELSE IF b = 240 THEN c >= 144 /\ c <= 191
    ELSE IF b = 244 THEN c >= 128 /\ c <= 143
    ELSE IsCont(c)

\* UTF8_CHAR_WIDTH: 0 for a byte that cannot start a character
Utf8Width(b) ==
    IF b < 128 THEN 1
    ELSE IF b >= 194 /\ b <= 223 THEN 2
    ELSE IF b >= 224 /\ b <= 239 THEN 3
    ELSE IF b >= 240 /\ b <= 244 THEN 4
    ELSE 0

\* length of the chunk at the head of s and whether it is a valid character;
\* an invalid chunk is the maximal prefix of a character, at least one byte
Utf8Chunk(s) ==
    LET b == s[1]
        w == Utf8Width(b)
        n == Len(s)
    IN  IF w = 1 THEN [len |-> 1, valid |-> TRUE]
        ELSE IF w = 0 THEN [len |-> 1, valid |-> FALSE]
        ELSE IF n < 2 \/ ~SecondOk(b, s[2]) THEN [len |-> 1, valid |-> FALSE]
        ELSE IF w = 2 THEN [len |-> 2, valid |-> TRUE]
        ELSE IF n < 3 \/ ~IsCont(s[3]) THEN [len |-> 2, valid |-> FALSE]
        ELSE IF w = 3 THEN [len |-> 3, valid |-> TRUE]
        ELSE IF n < 4 \/ ~IsCont(s[4]) THEN [len |-> 3, valid |-> FALSE]
        ELSE [len |-> 4, valid |-> TRUE]

\* String::from_utf8_lossy, the String given by its UTF-8 bytes
RECURSIVE from_utf8_lossy(_)
from_utf8_lossy(s) ==
    IF s = <<>> THEN <<>>
    ELSE LET c == Utf8Chunk(s)
             rest == SubSeq(s, c.len + 1, Len(s))
         IN  (IF c.valid THEN SubSeq(s, 1, c.len) ELSE REPLACEMENT)
                 \o from_utf8_lossy(rest)

\* std::str::from_utf8(s).is_ok()
RECURSIVE ValidUtf8(_)
ValidUtf8(s) ==
    IF s = <<>> THEN TRUE
    ELSE LET c == Utf8Chunk(s)
         IN  c.valid /\ ValidUtf8(SubSeq(s, c.len + 1, Len(s)))

\* the standard outputs of a process run in SpecPort
ByteStrings == UNION {[1..n -> Bytes] : n \in 0..MaxStdoutLen}

(* ------------------------------- state -------------------------------- *)

Tasks == {"t1", "t2"}

\* the task that starts the first operation
FirstTask == "t1"

\* the one task of SpecPort
PortTask == "t1"

VARIABLES
    now,        \* Instant::now()
    state,      \* AudioManagerState behind the RwLock: cached_devices, last_refresh
    sys,        \* the system default devices, owned by the external tool
    task,       \* per task: position, locals and what the running call did so far
    calls,      \* operations started so far
    ticks,      \* advances of the clock so far
    h_switched, \* a switch has succeeded and no get_audio_devices call began since
    h_refreshed, \* Option: the time of the last cache write not yet invalidated
    session_id, \* AudioManager.session_id
    app_state   \* the AppState of the UI that use_state holds

vars == <<now, state, sys, task, calls, ticks, h_switched, h_refreshed,
          session_id, app_state>>

\* AppState of the first render: the fields the startup tasks write
NewAppState == [devices |-> <<>>, last_refresh |-> None, module_available |-> None]

\* Uuid::new_v4().to_string(): the identifiers a manager can be given
SessionIds == {"session-1", "session-2"}

\* the identifier of the manager the other specifications follow
FirstSession == "session-1"

\* an info! line that tags a task with the session identifier it prints
info_tagging(session, tk) == [tk EXCEPT !.device_id = session]

\* info!("... (session: {})", .., self.session_id): the line goes to the
\* log; the locals of the task are as they were
info(session, tk) == tk

\* AudioManagerState::default()
DefaultState == [cached_devices |-> <<>>, last_refresh |-> None]

\* a task between operations
IdleTask ==
    [pc |-> "idle", op |-> "none", device_id |-> "",
     gad_for |-> "none", port_for |-> "none", script |-> <<>>,
     start_time |-> 0, attempt |-> 0, last_error |-> None,
     from_id |-> "", device_name |-> <<>>, json_output |-> <<>>,
     device_type |-> None,
     h_from_flag |-> None,    \* is_default of the from device change_audio_output found
     h_target |-> None,       \* the devices quick_switch_to_device searched, and its find
     devices |-> <<>>, current_defaults |-> None,
     switch_err |-> None, fb_playback |-> None, fb_recording |-> None,
     result |-> None,
     \* history of the running operation
     h_used |-> FALSE,        \* the task has started an operation before
     h_sets |-> <<>>,         \* set-default commands issued, in order
     h_spawns |-> 0,          \* processes spawned by the current Command Port call
     h_sleeps |-> <<>>,       \* its sleeps: [after |-> attempt, ms |-> delay]
     h_port |-> None,         \* the last Command Port call that returned
     h_stdout |-> None,       \* stdout of the attempt that exited with success
     \* of the get_audio_devices call that runs or has just returned
     h_first_after |-> FALSE, \* it is the first to begin after a switch
     h_began |-> None,        \* h_refreshed when it began
     h_check |-> None,        \* what its cache check saw and decided
     h_lists |-> 0,           \* listing commands it issued
     h_replaced |-> None,     \* the cache its update block wrote over
     h_catalog |-> None,      \* ids validate_device_id compared against
     h_validated |-> FALSE,   \* validate_device_id has returned Ok(())
     h_fetch_err |-> None,    \* the error fetch_devices_from_powershell returned
     h_pre_switch |-> None,   \* sys when the switch command was issued
     h_ret_sys |-> None]      \* sys when the operation returned

(* ---------------------------- Command Port ---------------------------- *)

\* RetryDelay with the attempt number forgotten
RetryDelayConstant(attempt) == RETRY_BASE_DELAY

\* the delay of the sleep after failed attempt number attempt
RetryDelay(attempt) == RETRY_BASE_DELAY * attempt

\* if attempt < MAX_RETRY_ATTEMPTS
SleepsAfter(attempt) == attempt < MAX_RETRY_ATTEMPTS

\* InLoop for the range 1..MAX_RETRY_ATTEMPTS, which excludes its end
InLoopExclusive(attempt) == attempt >= 1 /\ attempt < MAX_RETRY_ATTEMPTS

\* InLoop with one attempt more
InLoopOneMore(attempt) == attempt >= 1 /\ attempt <= MAX_RETRY_ATTEMPTS + 1

\* for attempt in 1..=MAX_RETRY_ATTEMPTS
InLoop(attempt) == attempt >= 1 /\ attempt <= MAX_RETRY_ATTEMPTS

\* StdoutText that trims the last byte of the output
StdoutTextTrimmed(script, stdout) ==
    IF script.kind = "raw"
    THEN from_utf8_lossy(SubSeq(stdout, 1, Len(stdout) - 1))
    ELSE stdout

\* the text of stdout: the bytes of SpecPort go through from_utf8_lossy; a
\* document of Spec stands for its own (valid UTF-8) text
StdoutText(script, stdout) ==
    IF script.kind = "raw" THEN from_utf8_lossy(stdout) ELSE stdout

\* Command::output() as the match sees it
Exit0(stdout) == [kind |-> "exit0", out |-> stdout]

ExitN(stderr) == [kind |-> "exitN", out |-> stderr]

SpawnErr(e) == [kind |-> "io", out |-> e]

\* last_error after a failed attempt
AttemptError(outcome) ==
    IF outcome.kind = "exitN" THEN CommandFailed(outcome.out)
    ELSE FromIoError(outcome.out)

\* Err(last_error.unwrap_or_else(..)) after the loop
Exhausted(last_error) ==
    IF IsSome(last_error) THEN Err(Unwrap(last_error))
    ELSE Err(CommandFailed("Unknown PowerShell error"))

\* execute_powershell_with_retry is entered
CallPort(tk, for, script) ==
    [tk EXCEPT !.pc = "spawn", !.port_for = for, !.script = script,
               !.attempt = 1, !.last_error = None,
               !.h_sets = IF script.kind = "set" THEN Append(@, script) ELSE @,
               !.h_spawns = 0, !.h_sleeps = <<>>, !.h_stdout = None,
               !.h_lists = IF script.kind = "list" THEN @ + 1 ELSE @]

\* execute_powershell_with_retry returns r: its locals go out of scope; what
\* the call did is kept for a call of the Command Port on its own
PortReturned(tk, r) ==
    [tk EXCEPT !.attempt = 0, !.last_error = None,
               !.h_spawns = 0, !.h_sleeps = <<>>, !.h_stdout = None,
               !.h_port = IF tk.port_for \in {"raw", "install"}
                          THEN Some([result |-> r, spawns |-> tk.h_spawns,
                                     sleeps |-> tk.h_sleeps, stdout |-> tk.h_stdout])
                          ELSE None]

ListScript == [kind |-> "list", id |-> ""]

SetScript(id) == [kind |-> "set", id |-> id]

RawScript == [kind |-> "raw", id |-> ""]

CheckScript == [kind |-> "check", id |-> ""]

InstallScript == [kind |-> "install", id |-> ""]

(* ------------------------ operations: continuations ------------------- *)

\* the operation returns r to its caller
Finish(tk, r, cx) ==
    [tk EXCEPT !.pc = "done", !.result = Some(r), !.devices = <<>>,
               !.h_ret_sys = Some(cx.sys)]

\* get_audio_devices is entered: let start_time = Instant::now()
CallGad(tk, for, cx) ==
    [tk EXCEPT !.pc = "check", !.gad_for = for, !.start_time = cx.now,
               !.devices = <<>>,
               !.h_first_after = cx.switched, !.h_began = cx.refreshed,
               !.h_check = None, !.h_lists = 0]

\* the characters of the device names, and ASCII to_lowercase
Chars(name) ==
    CASE name = "Speakers" -> <<"S", "p", "e", "a", "k", "e", "r", "s">>
      [] name = "Headphones" -> <<"H", "e", "a", "d", "p", "h", "o", "n", "e", "s">>
      [] name = "Microphone" -> <<"M", "i", "c", "r", "o", "p", "h", "o", "n", "e">>
      [] name = "Headset" -> <<"H", "e", "a", "d", "s", "e", "t">>
      [] OTHER -> <<>>

Uppers ==
    <<"A", "B", "C", "D", "E", "F", "G", "H", "I", "J", "K", "L", "M",
      "N", "O", "P", "Q", "R", "S", "T", "U", "V", "W", "X", "Y", "Z">>

Lowers ==
    <<"a", "b", "c", "d", "e", "f", "g", "h", "i", "j", "k", "l", "m",
      "n", "o", "p", "q", "r", "s", "t", "u", "v", "w", "x", "y", "z">>

ToLowerChar(c) ==
    IF \E i \in 1..Len(Uppers) : Uppers[i] = c
    THEN Lowers[CHOOSE i \in 1..Len(Uppers) : Uppers[i] = c]
    ELSE c

to_lowercase(s) == [i \in 1..Len(s) |-> ToLowerChar(s[i])]

\* str::contains: sub occurs in s as a run of consecutive characters
Contains(s, sub) ==
    \E k \in 0..(Len(s) - Len(sub)) : SubSeq(s, k + 1, k + Len(sub)) = sub

\* the names a caller of quick_switch_to_device gives
DeviceNames ==
    {<<"P", "H", "O", "N", "E">>, <<"m", "i", "c">>, <<"x">>}

\* the ids a caller of change_audio_output gives as from_device_id
FromIds == {"A", "Z"}

\* FindByName that compares the names as they are written
FindByNameCaseSensitive(devices, device_name) ==
    FindFrom(devices,
             {d \in Range(devices) : Contains(Chars(d.name), device_name)},
             1)

\* quick_switch_to_device: the first device whose lowercased name contains
\* the lowercased device_name, 0 for none
FindByName(devices, device_name) ==
    FindFrom(devices,
             {d \in Range(devices) :
                 Contains(to_lowercase(Chars(d.name)), to_lowercase(device_name))},
             1)

\* change_audio_output: devices.iter().find(|d| d.id == from_device_id)
FindById(devices, id) ==
    FindFrom(devices, {d \in Range(devices) : d.id = id}, 1)

\* the message of change_audio_output for a from device that is not default
NotDefault(id) == [msg |-> "Device {} is not currently the default", id |-> id]

\* Exists with the comparison negated
ExistsOther(devices, device_id) ==
    \E i \in 1..Len(devices) : devices[i].id # device_id

\* devices.iter().any(|d| d.id == device_id)
Exists(devices, device_id) ==
    \E i \in 1..Len(devices) : devices[i].id = device_id

\* get_current_defaults, on the devices get_audio_devices returned
DefaultOf(devices, type) ==
    LET i == FindFrom(devices,
                 {d \in Range(devices) : d.device_type = type /\ d.is_default}, 1)
    IN  IF i = 0 THEN None ELSE Some(devices[i].id)

CurrentDefaults(devices) ==
    <<DefaultOf(devices, "Playback"), DefaultOf(devices, "Recording")>>

\* FallbackResult that hands the first failed restore to the caller
FallbackResultPropagates(fb_playback, fb_recording) ==
    IF IsSome(fb_playback) /\ ~Unwrap(fb_playback).ok THEN Unwrap(fb_playback)
    ELSE IF IsSome(fb_recording) /\ ~Unwrap(fb_recording).ok THEN Unwrap(fb_recording)
    ELSE Ok("unit")

\* what fallback_to_previous_device returns: restore failures are only logged
FallbackResult(fb_playback, fb_recording) == Ok("unit")

\* AfterFallback that goes on to invalidate_cache as the Ok arm does
AfterFallbackInvalidates(tk, cx) == [tk EXCEPT !.pc = "invalidate"]

\* the Err(e) arm after fallback_to_previous_device(..).await?
AfterFallback(tk, cx) ==
    LET fb == FallbackResult(tk.fb_playback, tk.fb_recording)
    IN  IF ~fb.ok THEN Finish(tk, Err(fb.err), cx)
        ELSE Finish(tk, Err(Unwrap(tk.switch_err)), cx)

\* RestoreTarget that restores the empty id when the snapshot has none
RestoreTargetOrEmpty(default) == IF IsSome(default) THEN default ELSE Some("")

\* fallback_to_previous_device: if let Some(id) = &defaults.0 / &defaults.1
RestoreTarget(default) == default

\* Fallback that gives up after a failed playback restore
FallbackStopsAtFailure(tk, stage, cx) ==
    LET p == RestoreTarget(tk.current_defaults[1])
        r == RestoreTarget(tk.current_defaults[2])
    IN  IF stage = 1 /\ IsSome(p)
            THEN CallPort(tk, "fb_playback", SetScript(Unwrap(p)))
        ELSE IF IsSome(r) /\ (tk.fb_playback = None \/ Unwrap(tk.fb_playback).ok)
            THEN CallPort(tk, "fb_recording", SetScript(Unwrap(r)))
        ELSE AfterFallback(tk, cx)

\* fallback_to_previous_device from its first or its second if let
Fallback(tk, stage, cx) ==
    LET p == RestoreTarget(tk.current_defaults[1])
        r == RestoreTarget(tk.current_defaults[2])
    IN  IF stage = 1 /\ IsSome(p)
            THEN CallPort(tk, "fb_playback", SetScript(Unwrap(p)))
        ELSE IF IsSome(r)
            THEN CallPort(tk, "fb_recording", SetScript(Unwrap(r)))
        ELSE AfterFallback(tk, cx)

\* SwitchCommand that returns Ok(()) at once when the requested device is
\* already a default of the snapshot
SwitchCommandUnlessDefault(tk, cx) ==
    IF Some(tk.device_id) \in Range(tk.current_defaults)
    THEN Finish(tk, Ok("unit"), cx)
    ELSE CallPort(tk, "switch", SetScript(tk.device_id))

\* set_default_audio_device after the snapshot: change_default_device(device_id)
\* is called whatever the snapshot holds
SwitchCommand(tk, cx) == CallPort(tk, "switch", SetScript(tk.device_id))

\* AfterValidate that goes straight to change_default_device
AfterValidateSwitchFirst(tk, cx) ==
    CallPort([tk EXCEPT !.h_validated = TRUE], "switch", SetScript(tk.device_id))

\* set_default_audio_device after validate_device_id(..).await?: the
\* snapshot is taken next, get_current_defaults().await?
AfterValidate(tk, cx) ==
    CallGad([tk EXCEPT !.h_validated = TRUE], "defaults", cx)

\* AfterGad whose callers take a failed listing for an empty one
AfterGadOrEmpty(tk, r, cx) ==
    IF tk.gad_for = "get_devices" THEN Finish(tk, r, cx)
    ELSE [tk EXCEPT !.pc = tk.gad_for, !.devices = IF r.ok THEN r.val ELSE <<>>]

\* get_audio_devices returns r: get_devices hands it on, validate_device_id
\* and get_current_defaults hand on an error (.await?) and go on with devices
AfterGad(tk, r, cx) ==
    IF tk.gad_for = "get_devices" THEN Finish(tk, r, cx)
    ELSE IF ~r.ok THEN Finish(tk, Err(r.err), cx)
    ELSE [tk EXCEPT !.pc = tk.gad_for, !.devices = r.val]

\* the locals of a get_audio_devices call that has returned go out of scope
GadReturned(tk) ==
    [tk EXCEPT !.gad_for = "none", !.start_time = 0, !.devices = <<>>,
               !.h_first_after = FALSE, !.h_began = None,
               !.h_check = None, !.h_lists = 0, !.h_replaced = None,
               !.h_catalog = None]

\* change_default_device: execute_powershell_with_retry(..).await?; Ok(())
change_default_device(r) == IF r.ok THEN Ok("unit") ELSE r

\* check_module_availability on the output of its script: serde_json's
\* from_str(..)?, then response["available"].as_bool().unwrap_or(false)
CheckResponse(out) ==
    IF ~out.json THEN Err(FromJsonError("json"))
    ELSE Ok(IF IsSome(out.available) THEN Unwrap(out.available) ELSE FALSE)

\* install_module that takes a response without success for a success
InstallResponseUnlessFalse(out) ==
    IF ~out.json THEN Err(FromJsonError("json"))
    ELSE LET response == out.value
         IN  IF unwrap_or(as_bool(Index(response, "success")), TRUE)
             THEN Ok("unit")
             ELSE Err(CommandFailed(unwrap_or(as_str(Index(response, "error")),
                                              "Unknown installation error")))

\* install_module on the output of its script
InstallResponse(out) ==
    IF ~out.json THEN Err(FromJsonError("json"))
    ELSE LET response == out.value
         IN  IF unwrap_or(as_bool(Index(response, "success")), FALSE)
             THEN Ok("unit")
             ELSE Err(CommandFailed(unwrap_or(as_str(Index(response, "error")),
                                              "Unknown installation error")))

\* parse_device_list_response(&output): on the JSON value of the output where
\* the output is given as one, on the document otherwise
ParseOutput(output) ==
    IF "value" \in DOMAIN output THEN ParseDeviceList(output)
    ELSE parse_device_list_response(output)

\* execute_powershell_with_retry returned r to the code that called it
AfterPort(tk, r, cx) ==
    IF tk.port_for = "raw" THEN Finish(tk, r, cx)
    ELSE IF tk.port_for = "fetch" THEN
        \* .and_then(|output| self.parse_device_list_response(&output))
        LET parsed == IF r.ok THEN ParseOutput(r.val) ELSE r
        IN  IF parsed.ok
            THEN [tk EXCEPT !.pc = "update", !.devices = parsed.val]
            ELSE AfterGad([tk EXCEPT !.h_fetch_err = Some(parsed.err)], parsed, cx)
    ELSE IF tk.port_for = "switch" THEN
        IF change_default_device(r).ok THEN [tk EXCEPT !.pc = "invalidate"]
        ELSE Fallback([tk EXCEPT !.switch_err =
                           Some(change_default_device(r).err)], 1, cx)
    ELSE IF tk.port_for = "fb_playback" THEN
        Fallback([tk EXCEPT !.fb_playback = Some(change_default_device(r))], 2, cx)
    ELSE IF tk.port_for = "check" THEN
        Finish(tk, IF r.ok THEN CheckResponse(r.val) ELSE r, cx)
    ELSE IF tk.port_for = "install" THEN
        Finish(tk, IF r.ok THEN InstallResponse(r.val) ELSE r, cx)
    ELSE
        AfterFallback([tk EXCEPT !.fb_recording =
                           Some(change_default_device(r))], cx)

(* ------------------------------ the cache ----------------------------- *)

\* Instant::duration_since, which saturates at zero
DurationSince(later, earlier) ==
    IF later >= earlier THEN later - earlier ELSE 0

\* CacheValid with the comparison turned around
CacheValidReversed(st, start_time) ==
    /\ IsSome(st.last_refresh)
    /\ DurationSince(start_time, Unwrap(st.last_refresh)) > cache_ttl

\* CacheValid that still serves a cache exactly cache_ttl old
CacheValidInclusive(st, start_time) ==
    /\ IsSome(st.last_refresh)
    /\ DurationSince(start_time, Unwrap(st.last_refresh)) <= cache_ttl

\* CacheValid that takes any filled map for valid
CacheValidByContent(st, start_time) == DOMAIN st.cached_devices # {}

\* the if let / if of the cache check
CacheValid(st, start_time) ==
    /\ IsSome(st.last_refresh)
    /\ DurationSince(start_time, Unwrap(st.last_refresh)) < cache_ttl

\* CachedValues of a reader that sees the map while it is being filled: the
\* values of any part of it
CachedValuesPartial(st) ==
    LET m == st.cached_devices
    IN  UNION {{[i \in DOMAIN o |-> m[o[i]]] : o \in Perms(K)} :
                   K \in SUBSET (DOMAIN m)}

\* cached_devices.values().cloned().collect(): a HashMap iterates in an
\* unspecified order
CachedValues(st) ==
    LET m == st.cached_devices
    IN  {[i \in DOMAIN o |-> m[o[i]]] : o \in Perms(DOMAIN m)}

\* clear(), then insert(device.id, device) for each device in order: a later
\* device replaces an earlier one with the same id
Repopulate(devices) ==
    LET ids == {devices[i].id : i \in 1..Len(devices)}
        last(id) == CHOOSE i \in 1..Len(devices) :
                        /\ devices[i].id = id
                        /\ \A j \in (i + 1)..Len(devices) : devices[j].id # id
    IN  [id \in ids |-> devices[last(id)]]

\* RefreshStamp that stamps the time of the write
RefreshStampAtWrite(start_time, write_time) == Some(write_time)

\* the stamp the update block writes
RefreshStamp(start_time, write_time) == Some(start_time)

\* UpdateBlock that looks at the cache again and keeps a snapshot that is
\* valid for the call
UpdateBlockUnlessFresh(st, devices, start_time, write_time) ==
    IF CacheValid(st, start_time) THEN st
    ELSE [cached_devices |-> Repopulate(devices),
          last_refresh |-> RefreshStamp(start_time, write_time)]

\* UpdateBlock without the clear(): the fetched devices are added to the map
\* and an entry that is already there is kept
UpdateBlockMerge(st, devices, start_time, write_time) ==
    LET old == st.cached_devices
        new == Repopulate(devices)
    IN  [cached_devices |-> [id \in DOMAIN old \cup DOMAIN new |->
                                IF id \in DOMAIN old THEN old[id] ELSE new[id]],
         last_refresh |-> RefreshStamp(start_time, write_time)]

\* the block under the write lock: clear, insert each device, stamp; what the
\* cache held is not looked at
UpdateBlock(st, devices, start_time, write_time) ==
    [cached_devices |-> Repopulate(devices),
     last_refresh |-> RefreshStamp(start_time, write_time)]

(* ------------------------------ actions ------------------------------- *)

\* LockHeld with the write lock taken before the listing command is run and
\* kept until the update block ends
LockHeldDuringFetch(t) ==
    \E u \in Tasks \ {t} :
        task[u].pc = "spawn" /\ task[u].port_for = "fetch"

\* another task holds a lock on the state between the steps of t: none does.
\* The read guard lives in the block of the cache check, the write guards in
\* the update block and in invalidate_cache, and no block awaits inside; the
\* listing command is awaited between the two blocks with no guard alive
LockHeld(t) == FALSE

Cx(newsys) ==
    [now |-> now, sys |-> newsys, switched |-> h_switched,
     refreshed |-> h_refreshed]

\* task t may start an operation: the tasks are interchangeable, so the one
\* that starts first is called t1
Free(t) ==
    /\ task[t].pc = "idle"
    /\ t = FirstTask \/ task[FirstTask].h_used

\* a call is handing its result to its caller: the hand-over and what the
\* caller does with it up to its next call touch nothing shared, so nothing
\* else is interleaved with it
Returning ==
    \E u \in Tasks :
        task[u].pc \in {"done", "validate", "defaults",
                        "validate_from", "validate_to", "verify", "find"}

\* a machine that counts the processes it runs for the operation in progress,
\* by the Command Port call they belong to: listing, switch or restore
Metered(d) == "meter" \in DOMAIN d

ZeroMeter == [lists |-> 0, switches |-> 0, restores |-> 0, procs |-> 0]

\* an operation begins: the count starts again
Began(d) == IF Metered(d) THEN [d EXCEPT !.meter = ZeroMeter] ELSE d

\* Command::new("powershell")...output() of attempt tk.attempt of the Command
\* Port call of tk: one more process, and with the first attempt one more call
Counted(d, tk) ==
    IF ~Metered(d) THEN d
    ELSE LET first == IF tk.attempt = 1 THEN 1 ELSE 0 IN
         [d EXCEPT !.meter =
            [procs |-> @.procs + 1,
             lists |-> @.lists + IF tk.port_for = "fetch" THEN first ELSE 0,
             switches |-> @.switches + IF tk.port_for = "switch" THEN first ELSE 0,
             restores |-> @.restores +
                 IF tk.port_for \in {"fb_playback", "fb_recording"} THEN first ELSE 0]]

\* pub async fn get_devices / get_audio_devices is called
get_devices(t) ==
    /\ Free(t) /\ ~Returning
    /\ calls < MaxCalls
    /\ calls' = calls + 1
    /\ task' = [task EXCEPT ![t] =
            CallGad([IdleTask EXCEPT !.op = "get_devices", !.h_used = TRUE],
                    "get_devices", Cx(sys))]
    /\ h_switched' = FALSE
    /\ UNCHANGED <<app_state, session_id, now, state, sys, ticks, h_refreshed>>

\* pub async fn set_default_audio_device(device_id) is called
set_default_audio_device(t, session) ==
    /\ Free(t) /\ ~Returning
    /\ calls < MaxCalls
    /\ calls' = calls + 1
    /\ \E id \in RequestIds :
        task' = [task EXCEPT ![t] =
            CallGad(info(session,
                         [IdleTask EXCEPT !.op = "set_default", !.device_id = id,
                                          !.h_used = TRUE]),
                    "validate", Cx(sys))]
    /\ h_switched' = FALSE
    /\ sys' = Began(sys)
    /\ UNCHANGED <<app_state, session_id, now, state, ticks, h_refreshed>>

\* the device_type strings the boundary is called with
DeviceTypeArgs == {"Playback", "Recording", "playback", "Speakers"}

\* the match on device_type.as_str() that ignores the case of the letters
DeviceTypeArgAnyCase(device_type) ==
    IF device_type \in {"Playback", "playback"} THEN Some("Playback")
    ELSE IF device_type \in {"Recording", "recording"} THEN Some("Recording")
    ELSE None

\* the match on device_type.as_str() of the command: None stands for the
\* arm that returns the error
DeviceTypeArg(device_type) ==
    IF device_type = "Playback" THEN Some("Playback")
    ELSE IF device_type = "Recording" THEN Some("Recording")
    ELSE None

\* a manager whose set_default_device takes only a device of the type given
ManagerSetDefaultDeviceOfType(tk, device_type, session, cx) ==
    IF tk.device_id \in CatalogIds /\ TypeOf(tk.device_id).device_type # device_type
    THEN Finish([tk EXCEPT !.op = "set_default"],
                Err(DeviceNotFound(tk.device_id)), cx)
    ELSE CallGad(info(session, [tk EXCEPT !.op = "set_default"]), "validate", cx)

\* AudioManager::set_default_device(device_id, _device_type): the body is
\* self.set_default_audio_device(device_id).await
ManagerSetDefaultDevice(tk, device_type, session, cx) ==
    CallGad(info(session, [tk EXCEPT !.op = "set_default"]), "validate", cx)

\* the task that calls the command with id and device_type
CommandArgs(id, device_type) ==
    [IdleTask EXCEPT !.device_id = id, !.h_used = TRUE,
                     !.device_type = Some(device_type)]

\* the tauri command set_default_device(args) is called: a device_type it
\* takes is handed to the manager's set_default_device, which calls
\* set_default_audio_device(device_id)
set_default_device(t, session) ==
    /\ Free(t) /\ ~Returning
    /\ calls < MaxCalls
    /\ calls' = calls + 1
    /\ \E id \in RequestIds, device_type \in DeviceTypeArgs :
        LET tk == CommandArgs(id, device_type)
        IN  IF IsSome(DeviceTypeArg(device_type))
            THEN /\ task' = [task EXCEPT ![t] =
                        ManagerSetDefaultDevice(tk, Unwrap(DeviceTypeArg(device_type)),
                                                session, Cx(sys))]
                 /\ h_switched' = FALSE
            ELSE /\ task' = [task EXCEPT ![t] =
                        Finish([tk EXCEPT !.op = "set_default_device"],
                               Err(ParseError("Invalid device type")), Cx(sys))]
                 /\ UNCHANGED h_switched
    /\ UNCHANGED <<app_state, session_id, now, state, sys, ticks, h_refreshed>>

\* execute_powershell_with_retry(script, operation) is called on its own
execute_powershell_with_retry(t) ==
    /\ Free(t) /\ ~Returning
    /\ calls < MaxCalls
    /\ calls' = calls + 1
    /\ task' = [task EXCEPT ![t] =
            CallPort([IdleTask EXCEPT !.op = "execute", !.h_used = TRUE],
                     "raw", RawScript)]
    /\ UNCHANGED <<app_state, session_id, now, state, sys, ticks, h_switched, h_refreshed>>

\* get_audio_devices: the block under the read lock
CacheCheck(t, session) ==
    LET tk == info(session, task[t])
        seen == [last_refresh |-> state.last_refresh, refreshed |-> h_refreshed,
                 hit |-> FALSE]
    IN  /\ tk.pc = "check" /\ ~Returning /\ ~LockHeld(t)
        /\ IF CacheValid(state, tk.start_time)
           THEN \E vals \in CachedValues(state) :
                  task' = [task EXCEPT ![t] =
                      AfterGad([tk EXCEPT !.h_check = Some([seen EXCEPT !.hit = TRUE])],
                               Ok(vals), Cx(sys))]
           ELSE task' = [task EXCEPT ![t] =
                      CallPort([tk EXCEPT !.h_check = Some(seen)], "fetch", ListScript)]
        /\ UNCHANGED <<app_state, session_id, now, state, sys, calls, ticks, h_switched, h_refreshed>>

\* what attempt number n of the script can do: the outcome of
\* Command::output() and the defaults the run leaves behind
Runs(script, n) ==
    IF script.kind = "list" THEN
        {[outcome |-> Exit0(out), sys |-> sys] : out \in ListStdouts(sys)}
        \cup {[outcome |-> ExitN(Stderr(script, n)), sys |-> sys]}
    ELSE IF script.kind = "set" THEN
        \* the script throws for an id the tool does not list; when it fails
        \* the first Set-AudioDevice may already have taken effect
        {[outcome |-> Exit0("ok"), sys |-> SetAudioDevice(sys, script.id)] :
             x \in {y \in {1} : script.id \in CatalogIds}}
        \cup {[outcome |-> ExitN(Stderr(script, n)), sys |-> d] :
             d \in {sys, SetAudioDevice(sys, script.id)}}
    ELSE IF script.kind = "check" THEN
        {[outcome |-> Exit0(out), sys |-> sys] : out \in CheckStdouts}
        \cup {[outcome |-> ExitN(Stderr(script, n)), sys |-> sys]}
    ELSE IF script.kind = "install" THEN
        {[outcome |-> Exit0(out), sys |-> sys] : out \in InstallStdouts}
        \cup {[outcome |-> ExitN(Stderr(script, n)), sys |-> sys]}
    ELSE
        {[outcome |-> Exit0(out), sys |-> sys] : out \in ByteStrings}
        \cup {[outcome |-> ExitN(Stderr(script, n)), sys |-> sys],
              [outcome |-> SpawnErr(IoError(script, n)), sys |-> sys]}

\* one iteration of the for loop: Command::output(), the match, and after a
\* failed attempt that is not the last tokio::time::sleep(delay).  The clock
\* moves in Tick, which may fire between two iterations.
Spawn(t) ==
    LET tk == task[t] IN
    /\ tk.pc = "spawn" /\ ~Returning
    /\ \E run \in Runs(tk.script, tk.attempt) :
        LET o == run.outcome
            spawned == [tk EXCEPT !.h_spawns = @ + 1,
                                  !.h_pre_switch =
                                      IF tk.port_for = "switch" /\ tk.h_spawns = 0
                                      THEN Some(sys) ELSE @]
            ran == Counted(run.sys, tk)
            returns(r, x) == AfterPort(PortReturned(x, r), r, Cx(ran))
        IN  /\ sys' = ran
            /\ task' = [task EXCEPT ![t] =
                 IF o.kind = "exit0"
                 THEN returns(Ok(StdoutText(tk.script, o.out)),
                              [spawned EXCEPT !.h_stdout = Some(o.out)])
                 ELSE LET slept == IF SleepsAfter(tk.attempt)
                                   THEN Append(tk.h_sleeps,
                                            [after |-> tk.attempt,
                                             ms |-> RetryDelay(tk.attempt)])
                                   ELSE tk.h_sleeps
                          failed == [spawned EXCEPT
                                        !.last_error = Some(AttemptError(o)),
                                        !.h_sleeps = slept]
                      IN  IF InLoop(tk.attempt + 1)
                          THEN [failed EXCEPT !.attempt = @ + 1]
                          ELSE returns(Exhausted(failed.last_error), failed)]
    /\ UNCHANGED <<app_state, session_id, now, state, calls, ticks, h_switched, h_refreshed>>

\* validate_device_id after get_audio_devices().await?: the any() test, then
\* set_default_audio_device goes on to get_current_defaults
validate_device_id(t) ==
    LET tk == task[t]
        exists == Exists(tk.devices, tk.device_id)
        seen == [tk EXCEPT !.h_catalog =
                    Some({tk.devices[i].id : i \in 1..Len(tk.devices)})]
    IN  /\ tk.pc = "validate"
        /\ task' = [task EXCEPT ![t] =
                IF ~exists
                THEN Finish(seen, Err(DeviceNotFound(tk.device_id)), Cx(sys))
                ELSE AfterValidate(GadReturned(tk), Cx(sys))]
        /\ h_switched' = IF exists THEN FALSE ELSE h_switched
        /\ UNCHANGED <<app_state, session_id, now, state, sys, calls, ticks, h_refreshed>>

\* get_current_defaults after get_audio_devices().await?: the two find()s,
\* then set_default_audio_device goes on to change_default_device(device_id)
get_current_defaults(t) ==
    LET tk == task[t] IN
    /\ tk.pc = "defaults"
    /\ task' = [task EXCEPT ![t] =
            SwitchCommand([GadReturned(tk) EXCEPT
                              !.current_defaults = CurrentDefaults(tk.devices)],
                          Cx(sys))]
    /\ UNCHANGED <<app_state, session_id, now, state, sys, calls, ticks, h_switched, h_refreshed>>

\* pub async fn change_audio_output(from_device_id, to_device_id) is called:
\* validate_device_id(from_device_id) begins
change_audio_output(t, session) ==
    /\ Free(t) /\ ~Returning
    /\ calls < MaxCalls
    /\ calls' = calls + 1
    /\ \E from \in FromIds : \E to \in RequestIds :
        task' = [task EXCEPT ![t] =
            CallGad(info(session,
                         [IdleTask EXCEPT !.op = "change_audio_output",
                                          !.from_id = from, !.device_id = to,
                                          !.h_used = TRUE]),
                    "validate_from", Cx(sys))]
    /\ h_switched' = FALSE
    /\ UNCHANGED <<app_state, session_id, now, state, sys, ticks, h_refreshed>>

\* change_audio_output: validate_device_id(from_device_id) after its
\* get_audio_devices().await?, then validate_device_id(to_device_id) begins
validate_from(t) ==
    LET tk == task[t]
        exists == Exists(tk.devices, tk.from_id)
    IN  /\ tk.pc = "validate_from"
        /\ task' = [task EXCEPT ![t] =
                IF ~exists
                THEN Finish(tk, Err(DeviceNotFound(tk.from_id)), Cx(sys))
                ELSE CallGad(GadReturned(tk), "validate_to", Cx(sys))]
        /\ h_switched' = IF exists THEN FALSE ELSE h_switched
        /\ UNCHANGED <<app_state, session_id, now, state, sys, calls, ticks, h_refreshed>>

\* change_audio_output: validate_device_id(to_device_id) after its
\* get_audio_devices().await?, then the get_audio_devices of the check begins
validate_to(t) ==
    LET tk == task[t]
        exists == Exists(tk.devices, tk.device_id)
    IN  /\ tk.pc = "validate_to"
        /\ task' = [task EXCEPT ![t] =
                IF ~exists
                THEN Finish(tk, Err(DeviceNotFound(tk.device_id)), Cx(sys))
                ELSE CallGad(GadReturned(tk), "verify", Cx(sys))]
        /\ h_switched' = IF exists THEN FALSE ELSE h_switched
        /\ UNCHANGED <<app_state, session_id, now, state, sys, calls, ticks, h_refreshed>>

\* FromIsDefault that lets every from device pass
FromIsDefaultAlways(device) == TRUE

\* change_audio_output: the test `!from_device.is_default`, negated
FromIsDefault(device) == device.is_default

\* change_audio_output: the find, the is_default test, and then
\* set_default_audio_device(to_device_id) begins
verify_from_default(t, session) ==
    LET tk == task[t]
        i == FindById(tk.devices, tk.from_id)
        goes == i # 0 /\ FromIsDefault(tk.devices[i])
        found == [tk EXCEPT !.h_from_flag =
                     IF i = 0 THEN None ELSE Some(tk.devices[i].is_default)]
    IN  /\ tk.pc = "verify"
        /\ task' = [task EXCEPT ![t] =
                IF i = 0
                THEN Finish(found, Err(DeviceNotFound(tk.from_id)), Cx(sys))
                ELSE IF ~FromIsDefault(tk.devices[i])
                THEN Finish(found, Err(CommandFailed(NotDefault(tk.from_id))), Cx(sys))
                ELSE CallGad(info(session, GadReturned(found)), "validate", Cx(sys))]
        /\ h_switched' = IF goes THEN FALSE ELSE h_switched
        /\ UNCHANGED <<app_state, session_id, now, state, sys, calls, ticks, h_refreshed>>

\* pub async fn quick_switch_to_device(device_name) is called
quick_switch_to_device(t, session) ==
    /\ Free(t) /\ ~Returning
    /\ calls < MaxCalls
    /\ calls' = calls + 1
    /\ \E name \in DeviceNames :
        task' = [task EXCEPT ![t] =
            CallGad(info(session,
                         [IdleTask EXCEPT !.op = "quick_switch_to_device",
                                          !.device_name = name, !.h_used = TRUE]),
                    "find", Cx(sys))]
    /\ h_switched' = FALSE
    /\ UNCHANGED <<app_state, session_id, now, state, sys, ticks, h_refreshed>>

\* quick_switch_to_device: the find by name, and then
\* set_default_audio_device(target_device.id) begins
find_by_name(t, session) ==
    LET tk == task[t]
        i == FindByName(tk.devices, tk.device_name)
        found == [tk EXCEPT !.h_target = Some([devices |-> tk.devices, i |-> i])]
    IN  /\ tk.pc = "find"
        /\ task' = [task EXCEPT ![t] =
                IF i = 0
                THEN Finish(found, Err(DeviceNotFound(tk.device_name)), Cx(sys))
                ELSE CallGad(info(session, [GadReturned(found) EXCEPT
                                                !.device_id = tk.devices[i].id]),
                             "validate", Cx(sys))]
        /\ h_switched' = IF i # 0 THEN FALSE ELSE h_switched
        /\ UNCHANGED <<app_state, session_id, now, state, sys, calls, ticks, h_refreshed>>

\* pub async fn check_module_availability is called
check_module_availability(t) ==
    /\ Free(t) /\ ~Returning
    /\ calls < MaxCalls
    /\ calls' = calls + 1
    /\ task' = [task EXCEPT ![t] =
            CallPort([IdleTask EXCEPT !.op = "check_module_availability",
                                      !.h_used = TRUE],
                     "check", CheckScript)]
    /\ UNCHANGED <<app_state, session_id, now, state, sys, ticks, h_switched, h_refreshed>>

\* pub async fn install_module is called
install_module(t) ==
    /\ Free(t) /\ ~Returning
    /\ calls < MaxCalls
    /\ calls' = calls + 1
    /\ task' = [task EXCEPT ![t] =
            CallPort([IdleTask EXCEPT !.op = "install_module", !.h_used = TRUE],
                     "install", InstallScript)]
    /\ UNCHANGED <<app_state, session_id, now, state, sys, ticks, h_switched, h_refreshed>>

\* get_audio_devices: the block under the write lock, and the return
CacheUpdate(t) ==
    LET tk == task[t] IN
    /\ tk.pc = "update" /\ ~Returning /\ ~LockHeld(t)
    /\ state' = UpdateBlock(state, tk.devices, tk.start_time, now)
    /\ h_refreshed' = Some(now)
    /\ task' = [task EXCEPT ![t] =
            AfterGad([tk EXCEPT !.h_replaced = Some(state)],
                     Ok(tk.devices), Cx(sys))]
    /\ UNCHANGED <<app_state, session_id, now, sys, calls, ticks, h_switched>>

\* invalidate_cache that forgets the stamp and keeps the map
InvalidatedStampOnly(st) == [st EXCEPT !.last_refresh = None]

\* the state the write block of invalidate_cache leaves: no stamp, no entry
Invalidated(st) == [st EXCEPT !.last_refresh = None, !.cached_devices = <<>>]

\* the Ok arm of set_default_audio_device: invalidate_cache, then Ok(())
invalidate_cache(t) ==
    LET tk == task[t] IN
    /\ tk.pc = "invalidate" /\ ~Returning /\ ~LockHeld(t)
    /\ state' = Invalidated(state)
    /\ h_refreshed' = None
    /\ h_switched' = TRUE
    /\ task' = [task EXCEPT ![t] = Finish(tk, Ok("unit"), Cx(sys))]
    /\ UNCHANGED <<app_state, session_id, now, sys, calls, ticks>>

\* time passes
TickSteps == {cache_ttl}

\* a time taken from the clock is less than cache_ttl old
Recent(time) == now - time < cache_ttl

\* the manager holds a recent time: the stamp of the cache, the time of its
\* last write, or the start_time of a get_audio_devices call in progress.
\* The code looks at the clock only to compare such times against cache_ttl,
\* so when all of them are old a further advance changes nothing it can see
Timed ==
    \/ IsSome(state.last_refresh) /\ Recent(Unwrap(state.last_refresh))
    \/ IsSome(h_refreshed) /\ Recent(Unwrap(h_refreshed))
    \/ \E t \in Tasks : task[t].gad_for # "none" /\ Recent(task[t].start_time)

Tick ==
    /\ ticks < MaxTicks /\ ~Returning
    /\ Timed
    /\ ticks' = ticks + 1
    /\ \E d \in TickSteps : now' = now + d
    /\ UNCHANGED <<app_state, session_id, state, sys, task, calls, h_switched, h_refreshed>>

\* the caller has its result; the task is free for the next operation
Return(t) ==
    /\ task[t].pc = "done"
    /\ task' = [task EXCEPT ![t] = [IdleTask EXCEPT !.h_used = TRUE]]
    /\ UNCHANGED <<app_state, session_id, now, state, sys, calls, ticks, h_switched, h_refreshed>>

Init ==
    /\ now = 0
    /\ state = DefaultState
    /\ sys \in InitialDefaults
    /\ task = [t \in Tasks |-> IdleTask]
    /\ calls = 0
    /\ ticks = 0
    /\ h_switched = FALSE
    /\ h_refreshed = None
    /\ session_id = FirstSession
    /\ app_state = NewAppState

Next ==
    \/ \E t \in Tasks : get_devices(t)
    \/ \E t \in Tasks : set_default_audio_device(t, session_id)
    \/ \E t \in Tasks : CacheCheck(t, session_id)
    \/ \E t \in Tasks : Spawn(t)
    \/ \E t \in Tasks : CacheUpdate(t)
    \/ \E t \in Tasks : validate_device_id(t)
    \/ \E t \in Tasks : get_current_defaults(t)
    \/ \E t \in Tasks : invalidate_cache(t)
    \/ \E t \in Tasks : Return(t)
    \/ Tick

Spec == Init /\ [][Next]_vars

\* the Command Port on its own, called by one task
NextPort ==
    \/ execute_powershell_with_retry(PortTask)
    \/ Spawn(PortTask)
    \/ Return(PortTask)

SpecPort == Init /\ [][NextPort]_vars

\* the manager used by one task: the operations run one after the other
NextSeq ==
    \/ get_devices(FirstTask)
    \/ set_default_audio_device(FirstTask, session_id)
    \/ CacheCheck(FirstTask, session_id)
    \/ Spawn(FirstTask)
    \/ CacheUpdate(FirstTask)
    \/ validate_device_id(FirstTask)
    \/ get_current_defaults(FirstTask)
    \/ invalidate_cache(FirstTask)
    \/ Return(FirstTask)
    \/ Tick

SpecSeq == Init /\ [][NextSeq]_vars

\* set_default_audio_device called by one task, one call after the other, on
\* a machine that counts the processes of each call
InitMeter ==
    /\ now = 0
    /\ state = DefaultState
    /\ sys \in {[playback |-> d.playback, recording |-> d.recording,
                 meter |-> ZeroMeter] : d \in InitialDefaults}
    /\ task = [t \in Tasks |-> IdleTask]
    /\ calls = 0
    /\ ticks = 0
    /\ h_switched = FALSE
    /\ h_refreshed = None
    /\ session_id = FirstSession
    /\ app_state = NewAppState

\* the steps of a call in progress: each is the continuation of a future that
\* is ready (one task, so no lock is held by another), and Spawn is a process
\* that returns
CallSteps ==
    \/ CacheCheck(FirstTask, session_id)
    \/ Spawn(FirstTask)
    \/ CacheUpdate(FirstTask)
    \/ validate_device_id(FirstTask)
    \/ get_current_defaults(FirstTask)
    \/ invalidate_cache(FirstTask)

NextMeter ==
    \/ set_default_audio_device(FirstTask, session_id)
    \/ CacheCheck(FirstTask, session_id)
    \/ Spawn(FirstTask)
    \/ CacheUpdate(FirstTask)
    \/ validate_device_id(FirstTask)
    \/ get_current_defaults(FirstTask)
    \/ invalidate_cache(FirstTask)
    \/ Return(FirstTask)
    \/ Tick

\* every process invocation returns and the runtime polls a ready future
SpecMeter == InitMeter /\ [][NextMeter]_vars /\ WF_vars(CallSteps)

\* every operation of the manager, called by one task one after the other
NextOps ==
    \/ get_devices(FirstTask)
    \/ set_default_audio_device(FirstTask, session_id)
    \/ set_default_device(FirstTask, session_id)
    \/ change_audio_output(FirstTask, session_id)
    \/ quick_switch_to_device(FirstTask, session_id)
    \/ check_module_availability(FirstTask)
    \/ install_module(FirstTask)
    \/ CacheCheck(FirstTask, session_id)
    \/ Spawn(FirstTask)
    \/ CacheUpdate(FirstTask)
    \/ validate_from(FirstTask)
    \/ validate_to(FirstTask)
    \/ verify_from_default(FirstTask, session_id)
    \/ find_by_name(FirstTask, session_id)
    \/ validate_device_id(FirstTask)
    \/ get_current_defaults(FirstTask)
    \/ invalidate_cache(FirstTask)
    \/ Return(FirstTask)
    \/ Tick

SpecOps == Init /\ [][NextOps]_vars

\* the steps of NextOps that read the session identifier (each of them for
\* an info! line), as a manager whose identifier is session takes them; no
\* other action of the manager has the identifier among its inputs
SessionSteps(session) ==
    \/ set_default_audio_device(FirstTask, session)
    \/ set_default_device(FirstTask, session)
    \/ change_audio_output(FirstTask, session)
    \/ quick_switch_to_device(FirstTask, session)
    \/ CacheCheck(FirstTask, session)
    \/ verify_from_default(FirstTask, session)
    \/ find_by_name(FirstTask, session)

\* AudioManager::new(): the manager with any of the session identifiers
InitSession ==
    /\ now = 0
    /\ state = DefaultState
    /\ sys \in InitialDefaults
    /\ task = [t \in Tasks |-> IdleTask]
    /\ calls = 0
    /\ ticks = 0
    /\ h_switched = FALSE
    /\ h_refreshed = None
    /\ session_id \in SessionIds
    /\ app_state = NewAppState

\* every operation of a manager of any session identifier
SpecSession == InitSession /\ [][NextOps]_vars

\* the outputs of the listing script that parse to a device list: every array
\* of at most MaxDevices elements, ids that repeat and ids that are absent
\* included
ListingTexts ==
    {[json |-> TRUE, value |-> JObj([devices |-> JArr(a)])] : a \in Arrays(MaxDevices)}

\* get_devices by one task on a machine whose listing script prints one of
\* ListingTexts whenever it succeeds
InitListing ==
    /\ now = 0
    /\ state = DefaultState
    /\ sys \in {[playback |-> None, recording |-> None, listing |-> text] :
                   text \in ListingTexts}
    /\ task = [t \in Tasks |-> IdleTask]
    /\ calls = 0
    /\ ticks = 0
    /\ h_switched = FALSE
    /\ h_refreshed = None
    /\ session_id = FirstSession
    /\ app_state = NewAppState

NextListing ==
    \/ get_devices(FirstTask)
    \/ CacheCheck(FirstTask, session_id)
    \/ Spawn(FirstTask)
    \/ CacheUpdate(FirstTask)
    \/ Return(FirstTask)
    \/ Tick

SpecListing == InitListing /\ [][NextListing]_vars

(* ------------------------------- the UI ------------------------------- *)

\* a task of the UI between calls
IdleUiTask ==
    [pc |-> "idle", op |-> "none", h_used |-> FALSE, result |-> None,
     \* of an auto_switch_device call
     priorities |-> <<>>, available_devices |-> <<>>, device_type |-> None,
     responses |-> <<>>,      \* is_ok of the answer to its k-th invoke
     h_invoked |-> <<>>,      \* device ids of its invoke("set_default_device")
     \* of a startup task: the AppState its handle dereferences to
     handle |-> None]

\* the priority lists the UI reads from local storage: DevicePriority entries
\* in the order of the stored array
PriorityEntries ==
    {[device_id |-> id, priority |-> p] : id \in {"A", "B"}, p \in 0..(MaxPriorities - 1)}

RECURSIVE PriorityLists(_)
PriorityLists(n) ==
    IF n = 0 THEN {<<>>}
    ELSE PriorityLists(n - 1)
         \cup {Append(l, e) : l \in {x \in PriorityLists(n - 1) : Len(x) = n - 1},
                              e \in PriorityEntries}

\* what the device list of the UI has of the device id: nothing, or the device
\* in a state, default or not
Shapes(id) ==
    {<<>>}
    \cup {<<[id |-> id, name |-> TypeOf(id).name, state |-> s, is_default |-> d]>> :
             s \in {"Active", "Unplugged", "Disabled"}, d \in BOOLEAN}

AvailableDevices == {a \o b : a \in Shapes("A"), b \in Shapes("B")}

\* available_devices.iter().find(|d| d.id == device_id && d.state == "Active"):
\* the index of the device, 0 for none
FindActive(available_devices, device_id) ==
    FindFrom(available_devices,
             {d \in Range(available_devices) : d.id = device_id /\ d.state = "Active"}, 1)

\* the for loop of auto_switch_device from entry i on, invoked being the
\* set_default_device requests made so far
RECURSIVE AutoSwitchFrom(_, _, _, _, _)
AutoSwitchFrom(priorities, i, available_devices, responses, invoked) ==
    IF i > Len(priorities) THEN [result |-> None, invoked |-> invoked]
    ELSE LET found == FindActive(available_devices, priorities[i].device_id) IN
         IF found = 0
         THEN AutoSwitchFrom(priorities, i + 1, available_devices, responses, invoked)
         ELSE LET device == available_devices[found]
                  requested == Append(invoked, device.id)
              IN  IF ~device.is_default
                  THEN IF responses[Len(requested)]
                       THEN [result |-> Some(device.name), invoked |-> requested]
                       ELSE AutoSwitchFrom(priorities, i + 1, available_devices,
                                           responses, requested)
                  ELSE [result |-> None, invoked |-> invoked]

\* async fn auto_switch_device(priorities, available_devices, device_type)
auto_switch_device(t) ==
    LET tk == task[t]
        r == AutoSwitchFrom(tk.priorities, 1, tk.available_devices, tk.responses, <<>>)
    IN  /\ tk.pc = "idle" /\ IsSome(tk.device_type)
        /\ task' = [task EXCEPT ![t] =
                [tk EXCEPT !.op = "auto_switch_device", !.h_used = TRUE,
                           !.pc = "done", !.result = Some(r.result),
                           !.h_invoked = r.invoked]]
        /\ UNCHANGED <<app_state, session_id, now, state, sys, calls, ticks, h_switched, h_refreshed>>

\* the UI is about to call auto_switch_device with a stored priority list, the
\* devices of one type it holds, and a backend that answers each request
InitAuto ==
    /\ now = 0
    /\ state = DefaultState
    /\ sys = [playback |-> None, recording |-> None]
    /\ \E priorities \in PriorityLists(MaxPriorities),
          available_devices \in AvailableDevices,
          responses \in [1..MaxPriorities -> BOOLEAN] :
        task = [t \in Tasks |->
                   IF t = FirstTask
                   THEN [IdleUiTask EXCEPT !.priorities = priorities,
                                         !.available_devices = available_devices,
                                         !.responses = responses,
                                         !.device_type = Some("Playback")]
                   ELSE IdleUiTask]
    /\ calls = 0
    /\ ticks = 0
    /\ h_switched = FALSE
    /\ h_refreshed = None
    /\ session_id = FirstSession
    /\ app_state = NewAppState

NextAuto ==
    \/ auto_switch_device(FirstTask)

SpecAuto == InitAuto /\ [][NextAuto]_vars

\* what from_value makes of the answer to invoke("get_audio_devices")
DevicesAnswers ==
    {Ok(devices) : devices \in AvailableDevices}
    \cup {Err(CommandFailed("get_audio_devices"))}

\* what from_value makes of the answer to invoke("check_module_availability")
AvailabilityAnswers ==
    {Ok(TRUE), Ok(FALSE), Err(CommandFailed("check_module_availability"))}

LoadTask == "t1"

CheckTask == "t2"

\* the first render of app(): both use_effect_with((), ..) run once and
\* spawn_local their task, each with a clone of the handle use_state returned
\* to this render, which dereferences to the AppState of this render
app ==
    /\ \A t \in Tasks : task[t].pc = "idle" /\ ~task[t].h_used
    /\ task' = [t \in Tasks |->
                  [IdleUiTask EXCEPT !.op = IF t = LoadTask THEN "load_devices"
                                          ELSE "check_module",
                                   !.pc = "invoke", !.h_used = TRUE,
                                   !.handle = Some(app_state)]]
    /\ UNCHANGED <<app_state, session_id, now, state, sys, calls, ticks, h_switched, h_refreshed>>

\* let mut state = (*app_state).clone(); state.devices = devices;
\* state.last_refresh = Some(Date::now()); app_state.set(state)
DevicesLoaded(held, devices, time) ==
    [held EXCEPT !.devices = devices, !.last_refresh = Some(time)]

\* let mut state = (*app_state).clone(); state.module_available =
\* Some(is_available); app_state.set(state)
ModuleChecked(held, is_available) ==
    [held EXCEPT !.module_available = Some(is_available)]

\* the load task: invoke("get_audio_devices") is answered
load_devices(t) ==
    LET tk == task[t] IN
    /\ tk.op = "load_devices" /\ tk.pc = "invoke"
    /\ \E answer \in DevicesAnswers :
        /\ task' = [task EXCEPT ![t] = [tk EXCEPT !.pc = "done", !.result = Some(answer)]]
        /\ app_state' = IF answer.ok
                        THEN DevicesLoaded(Unwrap(tk.handle), answer.val, now)
                        ELSE app_state
    /\ UNCHANGED <<session_id, now, state, sys, calls, ticks, h_switched, h_refreshed>>

\* the check task: invoke("check_module_availability") is answered
check_module(t) ==
    LET tk == task[t] IN
    /\ tk.op = "check_module" /\ tk.pc = "invoke"
    /\ \E answer \in AvailabilityAnswers :
        /\ task' = [task EXCEPT ![t] = [tk EXCEPT !.pc = "done", !.result = Some(answer)]]
        /\ app_state' = IF answer.ok
                        THEN ModuleChecked(Unwrap(tk.handle), answer.val)
                        ELSE app_state
    /\ UNCHANGED <<session_id, now, state, sys, calls, ticks, h_switched, h_refreshed>>

\* the UI before its first render
InitApp ==
    /\ now = 0
    /\ state = DefaultState
    /\ sys = [playback |-> None, recording |-> None]
    /\ task = [t \in Tasks |-> IdleUiTask]
    /\ calls = 0
    /\ ticks = 0
    /\ h_switched = FALSE
    /\ h_refreshed = None
    /\ session_id = FirstSession
    /\ app_state = NewAppState

\* the startup of the UI
NextApp ==
    \/ app
    \/ \E t \in Tasks : load_devices(t)
    \/ \E t \in Tasks : check_module(t)

SpecApp == InitApp /\ [][NextApp]_vars

\* the parser on its own: parse_device_list_response is given a text
parse_device_list_response_call(t) ==
    LET tk == task[t] IN
    /\ tk.pc = "idle" /\ tk.json_output # <<>>
    /\ task' = [task EXCEPT ![t] =
            Finish([tk EXCEPT !.op = "parse_device_list_response", !.h_used = TRUE],
                   ParseDeviceList(tk.json_output), Cx(sys))]
    /\ UNCHANGED <<app_state, session_id, now, state, sys, calls, ticks, h_switched, h_refreshed>>

InitParse ==
    /\ now = 0
    /\ state = DefaultState
    /\ sys = [playback |-> None, recording |-> None]
    /\ \E text \in JsonOutputs :
        task = [t \in Tasks |->
                   IF t = FirstTask THEN [IdleTask EXCEPT !.json_output = text]
                   ELSE IdleTask]
    /\ calls = 0
    /\ ticks = 0
    /\ h_switched = FALSE
    /\ h_refreshed = None
    /\ session_id = FirstSession
    /\ app_state = NewAppState

NextParse ==
    \/ parse_device_list_response_call(FirstTask)
    \/ Return(FirstTask)

SpecParse == InitParse /\ [][NextParse]_vars

\* the cache on its own: the manager has run for a while and get_devices is
\* called by one task at a time around the cache_ttl boundary.
\* the times at which the cache was stamped, and the time now
Stamps == {0, 1}

StartTimes == {1, cache_ttl - 1, cache_ttl, cache_ttl + 1, 2 * cache_ttl}

\* a listing of an earlier catalog: device U has been removed since, B and R
\* were not plugged in yet
EarlierListing ==
    << [id |-> "A", name |-> "Speakers", device_type |-> "Playback",
        state |-> "Active", is_default |-> FALSE],
       [id |-> "U", name |-> "Headset", device_type |-> "Playback",
        state |-> "Active", is_default |-> TRUE] >>

\* the device lists an earlier refresh may have fetched
PriorListings ==
    {EarlierListing}
    \cup {ParseDevices(Unwrap(ListingResponse(d).devices)) : d \in SysDefaults}

\* the caches the manager can hold at time n: never filled or invalidated,
\* or written by an update block of a call that started at a time of Stamps
PriorStates(n) ==
    {DefaultState}
    \cup {[cached_devices |-> Repopulate(ds), last_refresh |-> Some(s)] :
             ds \in PriorListings, s \in {x \in Stamps : x <= n}}

InitCache ==
    /\ now \in StartTimes
    /\ state \in PriorStates(now)
    /\ sys \in InitialDefaults
    /\ task = [t \in Tasks |-> IdleTask]
    /\ calls = 0
    /\ ticks = 0
    /\ h_switched = FALSE
    /\ h_refreshed = state.last_refresh
    /\ session_id = FirstSession
    /\ app_state = NewAppState

NextCache ==
    \/ get_devices(FirstTask)
    \/ CacheCheck(FirstTask, session_id)
    \/ Spawn(FirstTask)
    \/ CacheUpdate(FirstTask)
    \/ Return(FirstTask)
    \/ Tick

SpecCache == InitCache /\ [][NextCache]_vars

TypeOK ==
    /\ now \in Nat
    /\ ticks \in 0..MaxTicks
    /\ calls \in 0..MaxCalls
    /\ sys \in SysDefaults
    /\ session_id \in SessionIds

(* ============================== claims ================================ *)

\* the set-default commands the operation of a task has issued
SetCommands(tk) == tk.h_sets

\* a set_default_audio_device call whose switch command has failed
SwitchFailed(tk) == tk.op = "set_default" /\ IsSome(tk.switch_err)

\* the error of the last run of the switch command of the call
SwitchError(tk) ==
    CommandFailed(Stderr(SetScript(tk.device_id), MAX_RETRY_ATTEMPTS))

\* C1: a set_default_audio_device call whose switch command failed on all its
\* attempts returns the error of that switch command, whatever the fallback
\* commands did: never Ok, never the error of a restore command.
C1_SwitchErrorReturned ==
    \A t \in Tasks :
        LET tk == task[t] IN
        (SwitchFailed(tk) /\ tk.pc = "done") =>
            tk.result = Some(Err(SwitchError(tk)))

\* C1 witness: the switch failed, the playback restore failed with another
\* error, the recording restore succeeded, and the call has returned.
C1_Witness ==
    \E t \in Tasks :
        LET tk == task[t] IN
        /\ SwitchFailed(tk) /\ tk.pc = "done"
        /\ IsSome(tk.fb_playback) /\ ~Unwrap(tk.fb_playback).ok
        /\ Unwrap(tk.fb_playback).err # SwitchError(tk)
        /\ tk.fb_recording = Some(Ok("unit"))

\* C2: set_default_audio_device with an id the tool does not list never issues
\* a set-default command: it never gets past validate_device_id and issues at
\* most one listing command; it returns an error, and DeviceNotFound(id)
\* whenever the listing it validated against was obtained.
C2_UnknownIdIssuesNoSet ==
    \A t \in Tasks :
        LET tk == task[t] IN
        (tk.op = "set_default" /\ tk.device_id \notin CatalogIds) =>
            /\ SetCommands(tk) = <<>>
            /\ tk.gad_for = "validate" /\ tk.h_lists <= 1
            /\ tk.pc = "done" => ~Unwrap(tk.result).ok
            /\ (tk.pc = "done" /\ IsSome(tk.h_catalog)) =>
                   tk.result = Some(Err(DeviceNotFound(tk.device_id)))

\* C2 witness: a call for the unlisted id has validated against a fetched
\* listing and returned DeviceNotFound.
C2_Witness ==
    \E t \in Tasks :
        LET tk == task[t] IN
        /\ tk.op = "set_default" /\ tk.device_id \notin CatalogIds
        /\ tk.pc = "done" /\ IsSome(tk.h_catalog)
        /\ SetCommands(tk) = <<>> /\ tk.h_lists = 1
        /\ tk.result = Some(Err(DeviceNotFound(tk.device_id)))

\* the Command Port call of task t that has returned
Returned(t) == Unwrap(task[t].h_port)

\* C3: a Command Port call never spawns more than 3 processes, and a call in
\* which no attempt exited with success has spawned exactly 3 and returned
\* an error.
C3_ExactlyThreeAttempts ==
    \A t \in Tasks :
        /\ task[t].h_spawns <= 3
        /\ IsSome(task[t].h_port) =>
              /\ Returned(t).spawns <= 3
              /\ Returned(t).stdout = None =>
                    /\ Returned(t).spawns = 3
                    /\ ~Returned(t).result.ok

\* C3 witness: a call has returned after three failed attempts.
C3_Witness ==
    \E t \in Tasks :
        /\ IsSome(task[t].h_port)
        /\ Returned(t).stdout = None
        /\ Returned(t).spawns = 3
        /\ ~Returned(t).result.ok

\* the sleeps of a Command Port call after k failed attempts that were not
\* the last: 500 ms after the first, 1000 ms after the second
BackoffSleeps(k) ==
    SubSeq(<<[after |-> 1, ms |-> 500], [after |-> 2, ms |-> 1000]>>, 1, k)

\* C4: inside a Command Port call the sleep after failed attempt k (k = 1, 2)
\* is 500 * k ms, and there is no sleep after the third failed attempt: a call
\* at attempt n has slept n - 1 times, and a call that returned an error has
\* slept exactly 500 ms and then 1000 ms.
C4_LinearBackoff ==
    \A t \in Tasks :
        /\ task[t].pc = "spawn" =>
              task[t].h_sleeps = BackoffSleeps(task[t].attempt - 1)
        /\ IsSome(task[t].h_port) =>
              /\ Returned(t).sleeps = BackoffSleeps(Len(Returned(t).sleeps))
              /\ ~Returned(t).result.ok => Returned(t).sleeps = BackoffSleeps(2)

\* C4 witness: a call has returned its error after sleeping 500 and 1000 ms.
C4_Witness ==
    \E t \in Tasks :
        /\ IsSome(task[t].h_port)
        /\ ~Returned(t).result.ok
        /\ Returned(t).spawns = 3
        /\ Returned(t).sleeps = BackoffSleeps(2)

\* C5 as stated: the result of a Command Port call that returns Ok is the
\* standard output of the successful attempt, unchanged.
C5_StdoutUnchanged ==
    \A t \in Tasks :
        (IsSome(task[t].h_port) /\ Returned(t).result.ok) =>
            Returned(t).result.val = Unwrap(Returned(t).stdout)

\* C5 amended: a Command Port call returns with the first attempt that exits
\* with success: no later attempt is made and no sleep follows (it spawned
\* one process more than it slept, and the task is done), also after failed
\* attempts; its result is the standard output of that attempt decoded as
\* UTF-8, which is the output unchanged when the output is valid UTF-8.
C5_ReturnsFirstSuccess ==
    \A t \in Tasks :
        (IsSome(task[t].h_port) /\ Returned(t).result.ok) =>
            LET out == Unwrap(Returned(t).stdout) IN
            /\ task[t].pc = "done" /\ task[t].h_spawns = 0
            /\ Returned(t).spawns = Len(Returned(t).sleeps) + 1
            /\ ValidUtf8(out) => Returned(t).result.val = out
            /\ ValidUtf8(Returned(t).result.val)

\* C5 witness: the second attempt succeeded with a two-byte character after
\* the first attempt failed.
C5_Witness ==
    \E t \in Tasks :
        /\ IsSome(task[t].h_port) /\ Returned(t).result.ok
        /\ Returned(t).spawns = 2
        /\ Returned(t).stdout = Some(<<195, 169>>)
        /\ Returned(t).result.val = <<195, 169>>

\* the cache check of the running get_audio_devices call of a task
Checked(tk) == IsSome(tk.h_check)

Seen(tk) == Unwrap(tk.h_check)

C7_StaleReadFetchesOnce ==
    \A t \in Tasks :
        LET tk == task[t] IN
        (/\ Checked(tk)
         /\ \/ Seen(tk).last_refresh = None
            \/ tk.start_time - Unwrap(Seen(tk).last_refresh) >= cache_ttl)
            => ~Seen(tk).hit /\ tk.h_lists = 1

\* C7 witness: a get_devices call that started exactly cache_ttl after the
\* stamp in the cache has returned after one listing call.
C7_Witness ==
    \E t \in Tasks :
        LET tk == task[t] IN
        /\ tk.op = "get_devices" /\ tk.pc = "done" /\ Checked(tk)
        /\ IsSome(Seen(tk).last_refresh)
        /\ tk.start_time - Unwrap(Seen(tk).last_refresh) = cache_ttl
        /\ ~Seen(tk).hit /\ tk.h_lists = 1

\* C8 as stated: the first get_audio_devices call that begins after a
\* set_default_audio_device call returned Ok is a cache miss.
C8_ReadAfterSwitchRefetches ==
    \A t \in Tasks :
        LET tk == task[t] IN
        (tk.h_first_after /\ Checked(tk)) => ~Seen(tk).hit

\* C9 as stated, in the case where the snapshot has both ids: when the switch
\* command failed and both restore commands succeeded, the system defaults at
\* the return of the call are those in effect just before the switch command
\* was issued.
C9_FallbackRestoresPreSwitch ==
    \A t \in Tasks :
        LET tk == task[t] IN
        (/\ SwitchFailed(tk) /\ tk.pc = "done"
         /\ tk.fb_playback = Some(Ok("unit"))
         /\ tk.fb_recording = Some(Ok("unit")))
            => tk.h_ret_sys = tk.h_pre_switch

\* C10: when the switch command failed and the snapshot holds neither a
\* playback nor a recording id, the call issues no restore command: the
\* switch command is the only set-default command of the call.
C10_NoFallbackWithoutDefaults ==
    \A t \in Tasks :
        LET tk == task[t] IN
        (SwitchFailed(tk) /\ tk.current_defaults = <<None, None>>) =>
            /\ SetCommands(tk) = <<SetScript(tk.device_id)>>
            /\ tk.fb_playback = None /\ tk.fb_recording = None

\* C10 witness: such a call has returned its switch error.
C10_Witness ==
    \E t \in Tasks :
        LET tk == task[t] IN
        /\ SwitchFailed(tk) /\ tk.current_defaults = <<None, None>>
        /\ tk.pc = "done" /\ ~Unwrap(tk.result).ok

\* the restore commands of a snapshot: its playback id first, then its
\* recording id
Restores(defaults) ==
    (IF IsSome(defaults[1]) THEN <<SetScript(Unwrap(defaults[1]))>> ELSE <<>>)
        \o (IF IsSome(defaults[2]) THEN <<SetScript(Unwrap(defaults[2]))>> ELSE <<>>)

\* C11: a call whose switch command failed has issued, by the time it returns,
\* the switch command and then one restore command for each id of the
\* snapshot, playback before recording, whether or not the playback restore
\* succeeded; until then the commands issued are a prefix of that sequence.
C11_RestoresEachSnapshotId ==
    \A t \in Tasks :
        LET tk == task[t]
            all == <<SetScript(tk.device_id)>> \o Restores(tk.current_defaults)
        IN  SwitchFailed(tk) =>
                /\ Len(SetCommands(tk)) <= Len(all)
                /\ SetCommands(tk) = SubSeq(all, 1, Len(SetCommands(tk)))
                /\ tk.pc = "done" => SetCommands(tk) = all

\* C11 witness: the playback restore failed and the recording restore was
\* still issued, and the call has returned.
C11_Witness ==
    \E t \in Tasks :
        LET tk == task[t] IN
        /\ SwitchFailed(tk) /\ tk.pc = "done"
        /\ IsSome(tk.fb_playback) /\ ~Unwrap(tk.fb_playback).ok
        /\ IsSome(tk.fb_recording)
        /\ SetCommands(tk) =
               <<SetScript(tk.device_id), SetScript("A"), SetScript("R")>>

\* a set_default_audio_device call whose snapshot has the requested device
\* as a default
AlreadyDefault(tk) ==
    /\ tk.op = "set_default"
    /\ tk.current_defaults # None
    /\ Some(tk.device_id) \in Range(tk.current_defaults)

\* C12: a set_default_audio_device call for a device that is already the
\* default issues the set-default command for that device like any other
\* call; when the command succeeds the call returns Ok(()) having issued
\* that one command, and the cache is empty with last_refresh = None when it
\* returns. A call that returns Ok(()) has always issued the command.
C12_AlreadyDefaultStillSwitches ==
    \A t \in Tasks :
        LET tk == task[t] IN
        /\ AlreadyDefault(tk) =>
               /\ SetCommands(tk) # <<>>
               /\ SetCommands(tk)[1] = SetScript(tk.device_id)
               /\ (IsSome(tk.result) /\ Unwrap(tk.result).ok) =>
                      /\ SetCommands(tk) = <<SetScript(tk.device_id)>>
                      /\ state = DefaultState
               /\ (tk.pc = "done" /\ ~IsSome(tk.switch_err)) =>
                      Unwrap(tk.result) = Ok("unit")
        /\ (tk.op = "set_default" /\ tk.pc = "done" /\ Unwrap(tk.result).ok) =>
               /\ SetCommands(tk) = <<SetScript(tk.device_id)>>
               /\ state = DefaultState

\* C12 witness: the device was the default when the call took its snapshot
\* and when it issued the command, and the call has returned Ok(()).
C12_Witness ==
    \E t \in Tasks :
        LET tk == task[t] IN
        /\ AlreadyDefault(tk) /\ tk.pc = "done"
        /\ Unwrap(tk.result) = Ok("unit")
        /\ IsSome(tk.h_pre_switch)
        /\ Unwrap(tk.h_pre_switch).playback = Some(tk.device_id)
        /\ state = DefaultState

\* a set_default_audio_device call for an id the tool does not list: if it
\* gets a catalog at all it fails with DeviceNotFound
NotFoundCall(tk) == tk.op = "set_default" /\ tk.device_id \notin CatalogIds

\* C13 as stated: no step of a set_default_audio_device call that fails with
\* DeviceNotFound changes the cache: its device map and last_refresh are the
\* same after the call as before it.
C13_NotFoundLeavesCache ==
    [][NotFoundCall(task[FirstTask]) => state' = state]_vars

\* C13 amended: a set_default_audio_device call that fails with
\* DeviceNotFound leaves the cache as it was when its validation was answered
\* from the cache; when its validation found the cache stale, the call
\* changes the cache once, to the devices its validation fetched stamped with
\* the start time of that validation, and does not invalidate it.
C13_NotFoundRefreshesOnlyWhenStale ==
    [][LET tk == task[FirstTask] IN
       NotFoundCall(tk) =>
          \/ state' = state
          \/ /\ Checked(tk) /\ ~Seen(tk).hit /\ tk.h_lists = 1
             /\ state' = [cached_devices |-> Repopulate(tk.devices),
                          last_refresh |-> Some(tk.start_time)]
             /\ state.last_refresh = Seen(tk).last_refresh
             /\ task'[FirstTask].pc = "validate"]_vars

\* C13 witness: the call has failed with DeviceNotFound after its validation
\* found a stale stamp in the cache, and the cache holds a new stamp.
C13_Witness ==
    LET tk == task[FirstTask] IN
    /\ NotFoundCall(tk) /\ tk.pc = "done"
    /\ Unwrap(tk.result) = Err(DeviceNotFound(tk.device_id))
    /\ Checked(tk) /\ ~Seen(tk).hit /\ IsSome(Seen(tk).last_refresh)
    /\ state.last_refresh = Some(tk.start_time)
    /\ state.last_refresh # Seen(tk).last_refresh

\* the listing command of a get_audio_devices call of the task is in flight:
\* the call is between its cache check and its update block, in an attempt
\* or in the sleep before one
Fetching(tk) == tk.pc = "spawn" /\ tk.port_for = "fetch"

Missed(tk) == tk.op = "get_devices" /\ Checked(tk) /\ ~Seen(tk).hit

\* C15: every get_devices call that finds the cache stale issues its own
\* listing command, also while another call that found it stale is running;
\* and when such a call returns its devices the cache holds exactly its
\* snapshot, the devices it fetched stamped with its start time, whatever
\* another call had written since its check: the last write wins.
C15_EachMissFetchesLastWriteWins ==
    \A t \in Tasks :
        LET tk == task[t] IN
        Missed(tk) =>
            /\ tk.h_lists = 1
            /\ \A u \in Tasks \ {t} : Missed(task[u]) => task[u].h_lists = 1
            /\ (tk.pc = "done" /\ Unwrap(tk.result).ok) =>
                  /\ IsSome(tk.h_replaced)
                  /\ state = [cached_devices |-> Repopulate(Unwrap(tk.result).val),
                              last_refresh |-> Some(tk.start_time)]

\* C15 witness: a call that found the cache never filled has returned after
\* writing over the snapshot of a call that started later and also found the
\* cache stale; the cache holds the stamp of the call that wrote last.
C15_Witness ==
    \E t \in Tasks :
        LET tk == task[t] IN
        /\ Missed(tk) /\ tk.pc = "done" /\ Unwrap(tk.result).ok
        /\ Seen(tk).last_refresh = None
        /\ IsSome(tk.h_replaced) /\ IsSome(Unwrap(tk.h_replaced).last_refresh)
        /\ Unwrap(Unwrap(tk.h_replaced).last_refresh) > tk.start_time
        /\ state.last_refresh = Some(tk.start_time)
        /\ \A u \in Tasks \ {t} : task[u].h_used /\ task[u].pc = "idle"

\* the maps a completed update block can leave: one for each document the
\* listing script can print that parses to a device list
CompleteSnapshots ==
    {Repopulate(parse_device_list_response(out).val) :
        out \in {o \in UNION {ListStdouts(d) : d \in SysDefaults} :
                    parse_device_list_response(o).ok}}

\* the devices a get_audio_devices call that was answered from the cache
\* handed to its caller
HitDevices(tk) == IF tk.pc = "done" THEN Unwrap(tk.result).val ELSE tk.devices

\* a get_audio_devices call of the task was answered from the cache and has
\* just handed its devices to its caller
HitReturned(tk) ==
    /\ Checked(tk) /\ Seen(tk).hit
    /\ \/ tk.pc = "done" /\ tk.op = "get_devices"
       \/ tk.pc \in {"validate", "defaults"}

\* C16: a stamped cache always holds the complete device map of one listing,
\* and a get_audio_devices call answered from the cache hands its caller
\* every device of that map exactly once: never a part of it, never devices
\* of two listings.
C16_HitReturnsOneSnapshot ==
    /\ IsSome(state.last_refresh) => state.cached_devices \in CompleteSnapshots
    /\ \A t \in Tasks :
        LET tk == task[t] IN
        HitReturned(tk) =>
            /\ state.cached_devices \in CompleteSnapshots
            /\ Len(HitDevices(tk)) = Cardinality(DOMAIN state.cached_devices)
            /\ Range(HitDevices(tk)) =
                   {state.cached_devices[id] : id \in DOMAIN state.cached_devices}

\* C16 witness: a call was answered from the cache with all the devices of
\* the catalog while the other task stands before its update block with a
\* fetched listing.
C16_Witness ==
    \E t \in Tasks : \E u \in Tasks \ {t} :
        LET tk == task[t] IN
        /\ HitReturned(tk)
        /\ Len(HitDevices(tk)) = Len(Catalog)
        /\ task[u].pc = "update"

\* C19: a get_audio_devices call is answered from the cache if and only if
\* the last_refresh it finds is set and less than cache_ttl before the time
\* the call began; with last_refresh None it issues the listing command, and
\* with exactly cache_ttl between the two it issues it too.
C19_HitIffStampWithinTtl ==
    \A t \in Tasks :
        LET tk == task[t] IN
        Checked(tk) =>
            /\ Seen(tk).hit <=>
                  /\ IsSome(Seen(tk).last_refresh)
                  /\ tk.start_time - Unwrap(Seen(tk).last_refresh) < cache_ttl
            /\ Seen(tk).hit => tk.h_lists = 0
            /\ ~Seen(tk).hit => tk.h_lists = 1
            /\ Seen(tk).last_refresh = None => ~Seen(tk).hit
            /\ (/\ IsSome(Seen(tk).last_refresh)
                /\ tk.start_time - Unwrap(Seen(tk).last_refresh) = cache_ttl)
                  => ~Seen(tk).hit

\* C19 witness: a get_devices call that began one millisecond before the
\* stamp in the cache was cache_ttl old has returned the cached devices
\* without a listing command.
C19_Witness ==
    LET tk == task[FirstTask] IN
    /\ tk.op = "get_devices" /\ tk.pc = "done" /\ Checked(tk)
    /\ IsSome(Seen(tk).last_refresh)
    /\ tk.start_time - Unwrap(Seen(tk).last_refresh) = cache_ttl - 1
    /\ Seen(tk).hit /\ tk.h_lists = 0
    /\ Unwrap(tk.result).ok /\ Unwrap(tk.result).val # <<>>

\* a get_devices call of the task has run its update block and returned
Refreshed(tk) ==
    /\ tk.op = "get_devices" /\ tk.pc = "done"
    /\ IsSome(tk.h_replaced) /\ Unwrap(tk.result).ok

\* C18: when a call returns from its update block, the keys of the cache are
\* exactly the ids of the devices the call fetched, every key maps to a
\* fetched device with that id, and no key or entry of the map it wrote over
\* is left unless the fetch has it too.
C18_RefreshReplacesWholesale ==
    \A t \in Tasks :
        LET tk == task[t]
            ds == Unwrap(tk.result).val
            ids == {ds[i].id : i \in 1..Len(ds)}
            new == state.cached_devices
            old == Unwrap(tk.h_replaced).cached_devices
        IN  Refreshed(tk) =>
                /\ DOMAIN new = ids
                /\ \A id \in DOMAIN new : new[id] \in Range(ds) /\ new[id].id = id
                /\ \A id \in DOMAIN old : id \notin ids => id \notin DOMAIN new
                /\ \A id \in DOMAIN old \cap DOMAIN new :
                       old[id] \notin Range(ds) => new[id] # old[id]

\* C18 witness: the update block wrote over a map that had a device the new
\* listing does not have and an entry with another default flag; the key is
\* gone and the entry is the fetched one.
C18_Witness ==
    \E t \in Tasks :
        LET tk == task[t]
            new == state.cached_devices
            old == Unwrap(tk.h_replaced).cached_devices
        IN  /\ Refreshed(tk)
            /\ "U" \in DOMAIN old /\ "U" \notin DOMAIN new
            /\ "A" \in DOMAIN old \cap DOMAIN new
            /\ old["A"].is_default # new["A"].is_default
            /\ DOMAIN new = CatalogIds

\* C20: in a set_default_audio_device call no set-default command is issued
\* before validate_device_id has returned Ok and the snapshot of the defaults
\* is taken, and the first command is the one for the requested device; a
\* second or third command, the restores, is issued only after that first
\* command has failed; and invalidate_cache is reached only after it has
\* succeeded, with no other command issued.
C20_ValidateSnapshotSwitch ==
    \A t \in Tasks :
        LET tk == task[t] IN
        /\ (tk.gad_for \in {"validate", "defaults"} \/ tk.pc \in {"validate", "defaults"})
              => SetCommands(tk) = <<>>
        /\ tk.current_defaults # None => tk.h_validated
        /\ SetCommands(tk) # <<>> =>
              /\ tk.op = "set_default" /\ tk.h_validated
              /\ tk.device_id \in CatalogIds
              /\ tk.current_defaults # None
              /\ SetCommands(tk)[1] = SetScript(tk.device_id)
        /\ Len(SetCommands(tk)) > 1 => IsSome(tk.switch_err)
        /\ tk.port_for \in {"fb_playback", "fb_recording"} => IsSome(tk.switch_err)
        /\ tk.pc = "invalidate" =>
              /\ SetCommands(tk) = <<SetScript(tk.device_id)>>
              /\ ~IsSome(tk.switch_err)
              /\ IsSome(tk.h_pre_switch)
        /\ (tk.op = "set_default" /\ tk.pc = "done" /\ Unwrap(tk.result).ok) =>
              /\ SetCommands(tk) = <<SetScript(tk.device_id)>>
              /\ ~IsSome(tk.switch_err)

\* C20 witness: the switch command of a validated call with its snapshot has
\* succeeded and the call stands before invalidate_cache, the cache still
\* stamped.
C20_Witness ==
    \E t \in Tasks :
        LET tk == task[t] IN
        /\ tk.pc = "invalidate" /\ tk.h_validated
        /\ tk.current_defaults = <<Some("A"), Some("R")>>
        /\ SetCommands(tk) = <<SetScript(tk.device_id)>>
        /\ sys.playback = Some(tk.device_id)
        /\ IsSome(state.last_refresh)

\* C17: a step changes the cache only if it is the update block of a
\* get_audio_devices call whose listing was fetched and parsed, which leaves
\* the fetched devices stamped with the start time of the call, or the
\* invalidate_cache of a call whose switch command succeeded, which leaves
\* the cache empty with last_refresh None. A step in which an operation
\* returns an error (a failed fetch or parse, a failed switch after its
\* fallback, a rejection of change_audio_output or quick_switch_to_device),
\* a run of a command, and every step of check_module_availability and
\* install_module leave the map and last_refresh as they are.
C17_OnlyRefreshAndInvalidateWrite ==
    [][LET tk == task[FirstTask]
           after == task'[FirstTask]
       IN  /\ state' # state =>
                \/ /\ tk.pc = "update" /\ Checked(tk) /\ ~Seen(tk).hit
                   /\ tk.h_lists = 1
                   /\ state' = [cached_devices |-> Repopulate(tk.devices),
                                last_refresh |-> Some(tk.start_time)]
                \/ /\ tk.pc = "invalidate" /\ ~IsSome(tk.switch_err)
                   /\ SetCommands(tk) = <<SetScript(tk.device_id)>>
                   /\ state' = DefaultState
           /\ (tk.pc # "done" /\ after.pc = "done" /\ ~Unwrap(after.result).ok)
                => state' = state
           /\ tk.pc = "spawn" => state' = state
           /\ after.op \in {"check_module_availability", "install_module"}
                => state' = state]_vars

\* C17 witness: change_audio_output has been rejected with CommandFailed
\* after its last read was answered from the cache, that is because its from
\* device is not the default, and the cache holds the stamp that read found.
C17_Witness ==
    LET tk == task[FirstTask] IN
    /\ tk.op = "change_audio_output" /\ tk.pc = "done"
    /\ ~Unwrap(tk.result).ok /\ Unwrap(tk.result).err.kind = "CommandFailed"
    /\ Checked(tk) /\ Seen(tk).hit /\ ~tk.h_validated
    /\ IsSome(state.last_refresh)
    /\ state.last_refresh = Seen(tk).last_refresh
    /\ SetCommands(tk) = <<>>

\* the last get_audio_devices read of the call found the cache stale and its
\* listing command or the parse of its output failed
ListingFailed(tk) ==
    /\ tk.pc = "done" /\ ~Unwrap(tk.result).ok
    /\ Checked(tk) /\ ~Seen(tk).hit /\ ~IsSome(tk.h_replaced)

\* the error of a call that has returned is DeviceNotFound(id)
NotFoundFor(tk, id) ==
    /\ ~Unwrap(tk.result).ok
    /\ Unwrap(tk.result).err.kind = "DeviceNotFound"
    /\ Unwrap(tk.result).err.detail = id

\* C21: change_audio_output issues a set-default command only when both ids
\* are in the catalog and the from device was flagged default in the catalog
\* it read, and the command is the one for to_id. When its catalog reads
\* succeed it otherwise returns, with no command issued,
\* DeviceNotFound(from_id) if from_id is missing, else DeviceNotFound(to_id)
\* if to_id is missing, else CommandFailed saying from_id is not the default.
\* When the test passes the call goes on as set_default_audio_device(to_id):
\* Ok(()) after the one command with the cache invalidated, or the error of
\* the failed switch command.
C21_ChangeOutputPreconditions ==
    \A t \in Tasks :
        LET tk == task[t] IN
        tk.op = "change_audio_output" =>
            /\ SetCommands(tk) # <<>> =>
                  /\ tk.from_id \in CatalogIds /\ tk.device_id \in CatalogIds
                  /\ tk.h_from_flag = Some(TRUE)
                  /\ SetCommands(tk)[1] = SetScript(tk.device_id)
            /\ (tk.pc = "done" /\ tk.h_from_flag # Some(TRUE)) =>
                  /\ ~Unwrap(tk.result).ok /\ SetCommands(tk) = <<>>
                  /\ \/ ListingFailed(tk)
                     \/ IF tk.from_id \notin CatalogIds
                            THEN NotFoundFor(tk, tk.from_id)
                        ELSE IF tk.device_id \notin CatalogIds
                            THEN NotFoundFor(tk, tk.device_id)
                        ELSE /\ tk.h_from_flag = Some(FALSE)
                             /\ Unwrap(tk.result).err.kind = "CommandFailed"
                             /\ Unwrap(tk.result).err.detail = NotDefault(tk.from_id)
            /\ (tk.pc = "done" /\ tk.h_from_flag = Some(TRUE)) =>
                  /\ Unwrap(tk.result).ok =>
                        /\ SetCommands(tk) = <<SetScript(tk.device_id)>>
                        /\ state = DefaultState
                  /\ IsSome(tk.switch_err) =>
                        Unwrap(tk.result) = Err(Unwrap(tk.switch_err))
                  /\ (~Unwrap(tk.result).ok /\ ~IsSome(tk.switch_err)) =>
                        ListingFailed(tk) /\ SetCommands(tk) = <<>>

\* C21 witness: change_audio_output from the default A to B has passed its
\* three reads and the test, issued the one command for B and returned Ok.
C21_Witness ==
    LET tk == task[FirstTask] IN
    /\ tk.op = "change_audio_output" /\ tk.pc = "done"
    /\ tk.from_id = "A" /\ tk.device_id = "B"
    /\ tk.h_from_flag = Some(TRUE)
    /\ Unwrap(tk.result).ok
    /\ SetCommands(tk) = <<SetScript("B")>>
    /\ sys.playback = Some("B")

\* the name contains s when case is ignored: at some offset every character
\* of s equals the character of the name up to case
MatchesIgnoringCase(name, s) ==
    \E k \in 0..(Len(Chars(name)) - Len(s)) :
        \A j \in 1..Len(s) : ToLowerChar(Chars(name)[k + j]) = ToLowerChar(s[j])

\* C22: quick_switch_to_device(s) picks, in the order get_audio_devices
\* returned the devices, the first one whose name contains s ignoring case,
\* and every set-default command it issues begins with the one for that
\* device's id; when no name contains s it returns DeviceNotFound(s) and
\* issues no set-default command.
C22_QuickSwitchFirstMatch ==
    \A t \in Tasks :
        LET tk == task[t]
            ds == Unwrap(tk.h_target).devices
            i == Unwrap(tk.h_target).i
        IN  tk.op = "quick_switch_to_device" =>
                /\ SetCommands(tk) # <<>> => IsSome(tk.h_target)
                /\ IsSome(tk.h_target) =>
                      IF \A j \in 1..Len(ds) : ~MatchesIgnoringCase(ds[j].name, tk.device_name)
                      THEN /\ i = 0 /\ tk.pc = "done"
                           /\ NotFoundFor(tk, tk.device_name)
                           /\ SetCommands(tk) = <<>>
                      ELSE /\ i \in 1..Len(ds)
                           /\ MatchesIgnoringCase(ds[i].name, tk.device_name)
                           /\ \A j \in 1..(i - 1) :
                                  ~MatchesIgnoringCase(ds[j].name, tk.device_name)
                           /\ tk.device_id = ds[i].id
                           /\ SetCommands(tk) # <<>> =>
                                  SetCommands(tk)[1] = SetScript(ds[i].id)
                           /\ (tk.pc = "done" /\ Unwrap(tk.result).ok) =>
                                  SetCommands(tk) = <<SetScript(ds[i].id)>>

\* C22 witness: two names contain the upper-case text, the switch went to the
\* one that came first in the devices read, and the call returned Ok.
C22_Witness ==
    LET tk == task[FirstTask]
        ds == Unwrap(tk.h_target).devices
        i == Unwrap(tk.h_target).i
    IN  /\ tk.op = "quick_switch_to_device" /\ tk.pc = "done"
        /\ IsSome(tk.h_target) /\ i # 0
        /\ tk.device_name = <<"P", "H", "O", "N", "E">>
        /\ \E j \in (i + 1)..Len(ds) : MatchesIgnoringCase(ds[j].name, tk.device_name)
        /\ Unwrap(tk.result).ok
        /\ SetCommands(tk) = <<SetScript(ds[i].id)>>

\* parse_device_list_response has returned for the text of the task
Parsed(tk) == tk.op = "parse_device_list_response" /\ tk.pc = "done"

\* the member of the response of the text, None when the text is no JSON
\* object with that member
Member(text, key) ==
    IF text.json /\ text.value.t = "obj" /\ key \in DOMAIN text.value.o
    THEN Some(text.value.o[key]) ELSE None

\* C23: for a JSON object with a member error the parser returns
\* CommandFailed with the text of that member (with "Unknown error" when the
\* member is not a string), whether the object has no devices member, one
\* that is not an array, or an array of any elements.
C23_ErrorMemberFirst ==
    \A t \in Tasks :
        LET tk == task[t]
            error == Member(tk.json_output, "error")
        IN  (Parsed(tk) /\ IsSome(error)) =>
                Unwrap(tk.result) =
                    Err(CommandFailed(IF Unwrap(error).t = "str"
                                      THEN Unwrap(error).s ELSE "Unknown error"))

\* C23 witness: the object had the error text and an array with a well-formed
\* device, and the parser returned CommandFailed with the text.
C23_Witness ==
    \E t \in Tasks :
        LET tk == task[t] IN
        /\ Parsed(tk)
        /\ Member(tk.json_output, "error") = Some(JStr("module"))
        /\ IsSome(Member(tk.json_output, "devices"))
        /\ Unwrap(Member(tk.json_output, "devices")).t = "arr"
        /\ Unwrap(Member(tk.json_output, "devices")).a = <<JObj(WellFormed)>>
        /\ Unwrap(tk.result) = Err(CommandFailed("module"))

\* the devices member of the text is an array
HasDevicesArray(text) ==
    /\ IsSome(Member(text, "devices"))
    /\ Unwrap(Member(text, "devices")).t = "arr"

\* C24: for a JSON value without a member error whose member devices is
\* absent or is not an array, the parser returns
\* ParseError("Missing devices array"), and so no devices.
C24_MissingDevicesArray ==
    \A t \in Tasks :
        LET tk == task[t] IN
        (/\ Parsed(tk)
         /\ tk.json_output.json
         /\ ~IsSome(Member(tk.json_output, "error"))
         /\ ~HasDevicesArray(tk.json_output)) =>
            Unwrap(tk.result) = Err(ParseError("Missing devices array"))

\* C24 witness: the object had no error and a devices member that is a
\* string, and the parser returned the ParseError.
C24_Witness ==
    \E t \in Tasks :
        LET tk == task[t] IN
        /\ Parsed(tk)
        /\ ~IsSome(Member(tk.json_output, "error"))
        /\ Member(tk.json_output, "devices") = Some(JStr("none"))
        /\ Unwrap(tk.result) = Err(ParseError("Missing devices array"))

\* the element has a member device_type that is exactly Playback or Recording
ValidType(e) ==
    /\ e.t = "obj"
    /\ "device_type" \in DOMAIN e.o
    /\ e.o["device_type"].t = "str"
    /\ e.o["device_type"].s \in {"Playback", "Recording"}

\* the places of the array whose element has a valid device_type
ValidPlaces(arr) == {i \in 1..Len(arr) : ValidType(arr[i])}

\* the place in the array of the k-th element with a valid device_type
PlaceOf(arr, k) ==
    CHOOSE i \in ValidPlaces(arr) :
        Cardinality({j \in ValidPlaces(arr) : j <= i}) = k

\* the array of a text that has one and no error
DevicesOf(text) == Unwrap(Member(text, "devices")).a

\* the parser was given an object with a devices array and without error
ParsedArray(tk) ==
    /\ Parsed(tk)
    /\ ~IsSome(Member(tk.json_output, "error"))
    /\ HasDevicesArray(tk.json_output)

\* C25: for an object with a devices array (and no error) the parser
\* succeeds with as many records as the array has elements whose device_type
\* is exactly "Playback" or "Recording", the k-th record being of the type of
\* the k-th such element; the other elements leave no record.
C25_OneRecordPerValidType ==
    \A t \in Tasks :
        LET tk == task[t]
            arr == DevicesOf(tk.json_output)
            res == Unwrap(tk.result)
        IN  ParsedArray(tk) =>
                /\ res.ok
                /\ Len(res.val) = Cardinality(ValidPlaces(arr))
                /\ \A k \in 1..Len(res.val) :
                       res.val[k].device_type
                           = arr[PlaceOf(arr, k)].o["device_type"].s

\* C25 witness: of an element with device_type "playback" followed by a
\* well-formed Playback element only the second gave a record.
C25_Witness ==
    \E t \in Tasks :
        LET tk == task[t] IN
        /\ ParsedArray(tk)
        /\ DevicesOf(tk.json_output)
               = <<JObj(With(WellFormed, "device_type", JStr("playback"))),
                   JObj(WellFormed)>>
        /\ Unwrap(tk.result).ok
        /\ Len(Unwrap(tk.result).val) = 1
        /\ Unwrap(tk.result).val[1].device_type = "Playback"

\* the text of a member of the element, the default when the member is
\* absent or no string
TextOr(e, key, default) ==
    IF key \in DOMAIN e.o /\ e.o[key].t = "str" THEN e.o[key].s ELSE default

\* the flag of a member of the element, false when absent or no boolean
FlagOr(e, key) ==
    IF key \in DOMAIN e.o /\ e.o[key].t = "bool" THEN e.o[key].b ELSE FALSE

\* C26: the record of an element with a valid device_type has the element's
\* id, name, state, flags and last_seen where they are present and of the
\* right type; otherwise id and name are empty, the flags false, last_seen
\* none, and state is Unknown, as it is for any text other than Active,
\* Disabled, NotPresent and Unplugged. None of them fails the parse.
C26_FieldsPreservedOrDefaulted ==
    \A t \in Tasks :
        LET tk == task[t]
            arr == DevicesOf(tk.json_output)
            res == Unwrap(tk.result)
        IN  ParsedArray(tk) =>
                /\ res.ok
                /\ \A k \in 1..Cardinality(ValidPlaces(arr)) :
                       LET e == arr[PlaceOf(arr, k)]
                           d == res.val[k]
                           s == TextOr(e, "state", "Unknown")
                       IN  /\ k <= Len(res.val)
                           /\ d.id = TextOr(e, "id", "")
                           /\ d.name = TextOr(e, "name", "")
                           /\ d.state =
                                  IF s \in {"Active", "Disabled", "NotPresent",
                                            "Unplugged"}
                                  THEN s ELSE "Unknown"
                           /\ d.is_default = FlagOr(e, "is_default")
                           /\ d.is_communication_default
                                  = FlagOr(e, "is_communication_default")
                           /\ d.last_seen =
                                  IF "last_seen" \in DOMAIN e.o
                                         /\ e.o["last_seen"].t = "str"
                                  THEN Some(e.o["last_seen"].s) ELSE None

\* C26 witness: an element with state "active" and an element without
\* last_seen gave a record with state Unknown and a record without last_seen
\* that kept its id, name and flags.
C26_Witness ==
    \E t \in Tasks :
        LET tk == task[t]
            res == Unwrap(tk.result)
        IN  /\ ParsedArray(tk)
            /\ DevicesOf(tk.json_output)
                   = <<JObj(With(WellFormed, "state", JStr("active"))),
                       JObj(Without(WellFormed, "last_seen"))>>
            /\ res.ok
            /\ Len(res.val) = 2
            /\ res.val[1].state = "Unknown"
            /\ res.val[1].last_seen = Some("2024-01-01T00:00:00.000Z")
            /\ res.val[2].last_seen = None
            /\ res.val[2].id = "A" /\ res.val[2].name = "Speakers"
            /\ res.val[2].state = "Active" /\ res.val[2].is_default

\* the step is a call of the command set_default_device by the task with a
\* device_type other than "Playback" and "Recording"
InvalidTypeCall(t) ==
    /\ task[t].pc = "idle"
    /\ task'[t].pc # "idle"
    /\ IsSome(task'[t].device_type)
    /\ Unwrap(task'[t].device_type) \notin {"Playback", "Recording"}

\* C27: a call of the command set_default_device with a device_type other
\* than exactly "Playback" or "Recording" returns
\* ParseError("Invalid device type") at once: the manager is not called, so
\* no listing command and no set-default command is run, and the cache and
\* the system defaults are as before the call.
C27_InvalidDeviceTypeRejected ==
    [][\A t \in Tasks :
          InvalidTypeCall(t) =>
              /\ task'[t].pc = "done"
              /\ task'[t].result = Some(Err(ParseError("Invalid device type")))
              /\ task'[t].h_spawns = 0
              /\ ~IsSome(task'[t].h_check)
              /\ task'[t].h_lists = 0
              /\ SetCommands(task'[t]) = <<>>
              /\ state' = state
              /\ sys' = sys]_vars

\* C27 witness: with the cache filled by an earlier call, the command was
\* called with "playback" and returned the ParseError with the cache as it
\* was.
C27_Witness ==
    \E t \in Tasks :
        LET tk == task[t] IN
        /\ tk.op = "set_default_device" /\ tk.pc = "done"
        /\ tk.device_type = Some("playback")
        /\ tk.result = Some(Err(ParseError("Invalid device type")))
        /\ tk.h_spawns = 0 /\ SetCommands(tk) = <<>>
        /\ IsSome(state.last_refresh)
        /\ state.cached_devices # <<>>

\* a Command Port call of the task has returned an error
PortFailed(tk) == IsSome(tk.h_port) /\ ~Unwrap(tk.h_port).result.ok

\* C28: a Command Port call that returns an error has made all its attempts
\* and returns CommandFailed, never another variant; the detail is the
\* stderr text of its last attempt when that attempt exited with a failure,
\* and the text of the I/O error when the process could not be spawned.
C28_ExhaustedIsCommandFailed ==
    \A t \in Tasks :
        LET tk == task[t]
            err == Unwrap(tk.h_port).result.err
        IN  PortFailed(tk) =>
                /\ Unwrap(tk.h_port).spawns = MAX_RETRY_ATTEMPTS
                /\ err.kind = "CommandFailed"
                /\ \/ err.detail = Stderr(RawScript, MAX_RETRY_ATTEMPTS)
                   \/ err.detail = IoError(RawScript, MAX_RETRY_ATTEMPTS)

\* C28 witness: the last of the attempts could not be spawned and the call
\* returned CommandFailed with the text of that I/O error.
C28_Witness ==
    \E t \in Tasks :
        LET tk == task[t] IN
        /\ PortFailed(tk)
        /\ Unwrap(tk.h_port).spawns = MAX_RETRY_ATTEMPTS
        /\ Unwrap(tk.h_port).result
               = Err(CommandFailed(IoError(RawScript, MAX_RETRY_ATTEMPTS)))

\* the Command Port call of an install_module call that has returned
Installed(tk) == tk.op = "install_module" /\ tk.pc = "done"

\* C30: install_module runs the installation script in one Command Port call
\* and no other command.  An error of that call is returned as it is; output
\* that is not JSON gives ParseError; a response with success = true gives
\* Ok; a response whose success is false, absent or no boolean gives
\* CommandFailed with the text of its error member, or with "Unknown
\* installation error" when that is absent or no string.
C30_InstallModuleOutcome ==
    \A t \in Tasks :
        LET tk == task[t]
            port == Unwrap(tk.h_port)
            out == Unwrap(port.stdout)
            success == Member(out, "success")
            error == Member(out, "error")
        IN  /\ tk.op = "install_module" =>
                /\ tk.pc \in {"spawn", "done"}
                /\ tk.script = InstallScript
                /\ tk.h_lists = 0 /\ SetCommands(tk) = <<>>
                /\ IsSome(tk.h_port) <=> tk.pc = "done"
            /\ Installed(tk) =>
                IF ~port.result.ok THEN tk.result = Some(port.result)
                ELSE IF ~out.json THEN tk.result = Some(Err(ParseError("json")))
                ELSE IF success = Some(JBool(TRUE)) THEN Unwrap(tk.result).ok
                ELSE tk.result = Some(Err(CommandFailed(
                         IF IsSome(error) /\ Unwrap(error).t = "str"
                         THEN Unwrap(error).s
                         ELSE "Unknown installation error")))

\* C30 witness: the script printed a response whose success is the string
\* "true", and install_module returned CommandFailed with the response's
\* error text after its one Command Port call.
C30_Witness ==
    \E t \in Tasks :
        LET tk == task[t] IN
        /\ Installed(tk)
        /\ IsSome(tk.h_port) /\ Unwrap(tk.h_port).result.ok
        /\ Unwrap(tk.h_port).spawns = 1
        /\ Member(Unwrap(Unwrap(tk.h_port).stdout), "success") = Some(JStr("true"))
        /\ tk.result = Some(Err(CommandFailed("install")))

C31_FetchFailureStopsCall ==
    \A t \in Tasks :
        LET tk == task[t] IN
        (tk.op = "set_default" /\ IsSome(tk.h_fetch_err)) =>
            /\ SetCommands(tk) = <<>>
            /\ tk.pc = "done"
            /\ tk.gad_for \in {"validate", "defaults"}
            /\ ~Unwrap(tk.result).ok
            /\ Unwrap(tk.result).err.kind = Unwrap(tk.h_fetch_err).kind
            /\ Unwrap(tk.result).err = Unwrap(tk.h_fetch_err)

\* C31 witness: the device was validated, the cache was stale again when the
\* current defaults were to be taken, the listing for them failed, and the
\* call returned without a set command.
C31_Witness ==
    \E t \in Tasks :
        LET tk == task[t] IN
        /\ tk.op = "set_default" /\ tk.pc = "done"
        /\ tk.h_validated /\ tk.gad_for = "defaults"
        /\ IsSome(tk.h_fetch_err)
        /\ ~Unwrap(tk.result).ok
        /\ SetCommands(tk) = <<>>

\* how often x is in the sequence
Count(s, x) == Cardinality({i \in 1..Len(s) : s[i] = x})

\* the two sequences hold the same records as often, in any order
SameCollection(a, b) ==
    /\ Len(a) = Len(b)
    /\ \A i \in 1..Len(a) : Count(a, a[i]) = Count(b, a[i])

\* C32 as stated: a get_devices call answered from the cache returns the
\* collection of devices that the call which filled the cache fetched and
\* returned (here the parse of the one text the listing script prints): as
\* many records, the same records up to order, also when records share an id.
C32_HitEqualsFetch ==
    \A t \in Tasks :
        LET tk == task[t] IN
        (/\ tk.op = "get_devices" /\ tk.pc = "done"
         /\ Checked(tk) /\ Seen(tk).hit
         /\ "listing" \in DOMAIN sys) =>
            SameCollection(Unwrap(tk.result).val, ParseDeviceList(sys.listing).val)

\* C33 as stated: a step that replaces one snapshot of the cache by another,
\* with no invalidation in between, never moves last_refresh back: since the
\* stamp of a snapshot is the start_time of the call that fetched it, the
\* snapshot is never replaced by one of a call that started earlier.
C33_RefreshNeverGoesBack ==
    [][(IsSome(state.last_refresh) /\ IsSome(state'.last_refresh)) =>
          Unwrap(state'.last_refresh) >= Unwrap(state.last_refresh)]_vars

\* C34: in every state of the manager, a cache without last_refresh has no
\* entry: so it is at construction, so invalidate_cache leaves it, and the
\* update block sets the stamp together with the map.
C34_NoStampNoEntries ==
    state.last_refresh = None => DOMAIN state.cached_devices = {}

\* C34 witness: a set_default_audio_device call has validated its device in a
\* filled cache, switched and invalidated; the cache has no stamp and no entry.
C34_Witness ==
    /\ state.last_refresh = None
    /\ h_switched
    /\ DOMAIN state.cached_devices = {}
    /\ \E t \in Tasks :
           LET tk == task[t] IN
           /\ tk.op = "set_default" /\ tk.pc = "done" /\ tk.h_validated
           /\ Unwrap(tk.result).ok

\* the Command Port calls and the processes a count allows one call
WithinBudget(m) ==
    /\ m.lists <= 2 /\ m.switches <= 1 /\ m.restores <= 2
    /\ m.lists + m.switches + m.restores <= 5
    /\ m.procs <= 15
    /\ m.restores > 0 => m.switches = 1

\* C35: every process invocation returning, a set_default_audio_device call
\* that has begun returns; and from its beginning to its return it has made at
\* most 2 listing calls, 1 switch call and 2 restore calls of the Command
\* Port, 5 in all, with at most 15 processes: a failed restore is followed by
\* no further restore.
C35_CallEndsWithinBudget ==
    /\ [](\A t \in Tasks :
             (task[t].op = "set_default" /\ Metered(sys)) => WithinBudget(sys.meter))
    /\ \A t \in Tasks : (task[t].op = "set_default") ~> (task[t].pc = "done")

\* C35 witness: a call has returned after 5 Command Port calls of 3 attempts
\* each: two listings, the switch and both restores failing to the last.
C35_Witness ==
    \E t \in Tasks :
        LET tk == task[t] IN
        /\ tk.op = "set_default" /\ tk.pc = "done" /\ Metered(sys)
        /\ sys.meter = [lists |-> 2, switches |-> 1, restores |-> 2, procs |-> 15]
        /\ IsSome(tk.switch_err) /\ Len(SetCommands(tk)) = 3
        /\ ~Unwrap(tk.result).ok

\* the step is a call of the command set_default_device by task t with a
\* device_type the command takes
ValidTypeCall(t) ==
    /\ task[t].pc = "idle"
    /\ task'[t].pc # "idle"
    /\ IsSome(task'[t].device_type)
    /\ IsSome(DeviceTypeArg(Unwrap(task'[t].device_type)))

\* the task but for the record of the device_type it was called with, which
\* nothing of the manager reads
ButArgument(tk) == [tk EXCEPT !.device_type = None]

\* C36: a call of set_default_device leaves the calling task, the cache and the
\* system as the same call with the other device_type leaves them, whether or
\* not the device is of that type: but for the record of the argument the
\* state after the call is the same, and so is all that follows from it, the
\* result, the commands issued and the cache.
C36_DeviceTypeHasNoEffect ==
    [][\A t \in Tasks :
          ValidTypeCall(t) =>
              \A device_type \in DeviceTypes :
                  /\ ButArgument(task'[t]) =
                        ButArgument(ManagerSetDefaultDevice(
                            CommandArgs(task'[t].device_id, device_type),
                            device_type, session_id, Cx(sys)))
                  /\ state' = state
                  /\ sys' = sys]_vars

\* C36 witness: the command was called with "Recording" for the playback
\* device B; the call validated B, issued the one command for B, made B the
\* default playback device and returned Ok(()).
C36_Witness ==
    \E t \in Tasks :
        LET tk == task[t] IN
        /\ tk.op = "set_default" /\ tk.pc = "done"
        /\ tk.device_type = Some("Recording")
        /\ tk.device_id = "B" /\ TypeOf("B").device_type = "Playback"
        /\ tk.h_validated
        /\ SetCommands(tk) = <<SetScript("B")>>
        /\ Unwrap(tk.result) = Ok("unit")
        /\ sys.playback = Some("B")
        /\ state = DefaultState

\* the entries of the priority list of the call whose device is among the
\* available devices with state Active
Candidates(tk) ==
    {i \in 1..Len(tk.priorities) :
        FindActive(tk.available_devices, tk.priorities[i].device_id) # 0}

\* the devices of the candidates with the smallest priority value
HighestPriority(tk) ==
    {tk.priorities[i].device_id :
        i \in {j \in Candidates(tk) :
                  \A k \in Candidates(tk) :
                      tk.priorities[j].priority <= tk.priorities[k].priority}}

\* the available Active device with the id is the default
ActiveDefault(tk, id) ==
    tk.available_devices[FindActive(tk.available_devices, id)].is_default

\* C37 as stated: auto_switch_device first requests a switch to the device of
\* smallest priority value among the entries whose device is available and
\* Active; when that device is already the default it makes no request and
\* returns None; with no such entry it makes no request.
C37_SwitchesToHighestPriority ==
    \A t \in Tasks :
        LET tk == task[t] IN
        (tk.op = "auto_switch_device" /\ tk.pc = "done") =>
            /\ tk.h_invoked # <<>> => tk.h_invoked[1] \in HighestPriority(tk)
            /\ (Candidates(tk) # {} /\ \A id \in HighestPriority(tk) : ActiveDefault(tk, id))
                  => tk.h_invoked = <<>> /\ tk.result = Some(None)
            /\ (Candidates(tk) # {} /\ \A id \in HighestPriority(tk) : ~ActiveDefault(tk, id))
                  => tk.h_invoked # <<>>
            /\ Candidates(tk) = {} => tk.h_invoked = <<>> /\ tk.result = Some(None)

\* both startup tasks have completed with an answer that parsed
BothLoaded ==
    /\ task[LoadTask].op = "load_devices" /\ task[LoadTask].pc = "done"
    /\ task[CheckTask].op = "check_module" /\ task[CheckTask].pc = "done"
    /\ Unwrap(task[LoadTask].result).ok
    /\ Unwrap(task[CheckTask].result).ok

\* C38 as stated: once both startup tasks have completed successfully, in
\* either order, the AppState holds the device list the one loaded and the
\* availability the other found.
C38_StartupUpdatesBothKept ==
    BothLoaded =>
        /\ app_state.devices = Unwrap(task[LoadTask].result).val
        /\ app_state.module_available = Some(Unwrap(task[CheckTask].result).val)

====
